---- MODULE Spec2Model ----
(***************************************************************************)
(* Verification model of idle-self-driving: the feed-forward Network       *)
(* (src/model/Network.ts), the Car state machine and the generational      *)
(* trainer (src/model/Car.ts) with the Settings they share                 *)
(* (src/model/Settings.ts).                                                *)
(*                                                                         *)
(* Units.  Wall-clock time and dt are integer milliseconds.  Control       *)
(* inputs (steering, acceleration), sensor readings and the values fed to  *)
(* a car's network are thousandths.  Speed is 1/1000 px/s, positions and   *)
(* the odometer are 1/1000 px.  Angles are counted in units of pi/PiU.     *)
(* Scores are exact integers: the code's score times ScoreScale.  Network  *)
(* weights are whole numbers.  Quotients round toward zero.                *)
(***************************************************************************)
EXTENDS Integers, Sequences, FiniteSets, TLC

VARIABLES
  netCfg,    \* Network.Configuration handed to the Network constructor
  net,       \* the constructed Network ([config |-> ...]) or NoNet
  netErr,    \* message of the Error thrown by the constructor, or "none"
  evalIn,    \* last argument of Network.eval
  evalOut,   \* last result of Network.eval or of randomStep
  now,       \* Date.now()
  heap,      \* the Car objects that are registered or have a refresh pending
  registry,  \* Car.registry: the registered names in insertion order
  pending,   \* perception refreshes (composeImage promises) not yet settled
  settings,  \* Settings.singleton: the fields the trainer reads and writes
  nextId,    \* identity of the next Car object constructed
  lastOp     \* the operation that produced the current state

netVars == <<netCfg, net, netErr, evalIn, evalOut>>

carVars == <<now, heap, registry, pending, settings, nextId, lastOp>>

vars == <<netCfg, net, netErr, evalIn, evalOut,
          now, heap, registry, pending, settings, nextId, lastOp>>

-----------------------------------------------------------------------------
(* Bounds of the exploration *)

MaxIn == 2
MaxOut == 2
MaxHid == 1
MaxLayers == 2

-----------------------------------------------------------------------------
(* JavaScript number values: a finite number, NaN, or undefined *)

Num(n) == [k |-> "num", v |-> n]
NaN == [k |-> "nan", v |-> 0]
Undef == [k |-> "undef", v |-> 0]

IsNum(a) == a.k = "num"

\* a + b on JS values: anything that is not a finite number gives NaN
JsAdd(a, b) == IF IsNum(a) /\ IsNum(b) THEN Num(a.v + b.v) ELSE NaN

\* a * b on JS values
JsMul(a, b) == IF IsNum(a) /\ IsNum(b) THEN Num(a.v * b.v) ELSE NaN

\* array[idx0] with a 0-based index: undefined outside the array
JsIndex(row, idx0) ==
  IF idx0 >= 0 /\ idx0 < Len(row) THEN Num(row[idx0 + 1]) ELSE Undef

-----------------------------------------------------------------------------
(* Network.ts *)

NoNet == [config |-> <<>>]

\* size of the input of layer i (1-based): input for the first, else hidden[i-1]
LayerIn(cfg, i) == IF i = 1 THEN cfg.input ELSE cfg.hidden[i - 1]

\* size of the output of layer i (1-based): output for the last, else hidden[i]
\* (hidden[i] past the end of hidden is undefined, which equals no length)
LayerOut(cfg, i) ==
  IF i = Len(cfg.hidden) + 1 THEN cfg.output
  ELSE IF i <= Len(cfg.hidden) THEN cfg.hidden[i] ELSE -1

\* the layers at which validate's loop would throw
BadLayers(cfg) ==
  {i \in 1..Len(cfg.weights) :
     \/ Len(cfg.weights[i]) # LayerOut(cfg, i)
     \/ \E j \in 1..Len(cfg.weights[i]) :
          Len(cfg.weights[i][j]) # LayerIn(cfg, i) + 1}

Min(S) == CHOOSE x \in S : \A y \in S : x <= y

\* Validate without the per-neuron row length check
ValidateNoRowCheck(cfg) ==
  IF cfg.input < 1 THEN "Invalid input count"
  ELSE IF cfg.output < 1 THEN "Invalid output count"
  ELSE IF Len(cfg.weights) # Len(cfg.hidden) + 1 THEN "Invalid weight count"
  ELSE IF \E i \in 1..Len(cfg.weights) : Len(cfg.weights[i]) # LayerOut(cfg, i)
       THEN "Invalid row count"
  ELSE "ok"

\* Network.validate: the message of the first Error thrown, or "ok"
Validate(cfg) ==
  IF cfg.input < 1 THEN "Invalid input count"
  ELSE IF Len(cfg.hidden) < 0 THEN "Invalid hidden layer count"
  ELSE IF cfg.output < 1 THEN "Invalid output count"
  ELSE IF Len(cfg.weights) # Len(cfg.hidden) + 1 THEN "Invalid weight count"
  ELSE IF BadLayers(cfg) # {}
       THEN LET i == Min(BadLayers(cfg))
            IN IF Len(cfg.weights[i]) # LayerOut(cfg, i)
               THEN "Invalid row count"
               ELSE "Invalid col count"
  ELSE "ok"

\* Network.activation; `one` is the representation of 1.0 (1 when values are
\* whole numbers, 1000 when they are thousandths)
Activation(value, one) ==
  IF IsNum(value) /\ value.v < -one THEN Num(-one)
  ELSE IF IsNum(value) /\ value.v > one THEN Num(one)
  ELSE value

\* the "Weights" loop of eval: sum += layer_in[idx_in] * row[idx_in] for
\* idx_in < layer_in.length - 1 (0-based)
RECURSIVE WeightLoop(_, _, _, _)
WeightLoop(sum, row, layerIn, idxIn) ==
  IF idxIn >= Len(layerIn) - 1 THEN sum
  ELSE WeightLoop(JsAdd(sum, JsMul(layerIn[idxIn + 1], JsIndex(row, idxIn))),
                  row, layerIn, idxIn + 1)

\* a weight used as a summand (the bias), written in units of 1/one
AsSummand(w, one) == IF IsNum(w) THEN Num(w.v * one) ELSE w

\* one neuron of eval: bias read at index layer_in.length - 1, then the loop
NeuronOut(row, layerIn, one) ==
  Activation(WeightLoop(AsSummand(JsIndex(row, Len(layerIn) - 1), one),
                        row, layerIn, 0), one)

\* one layer of eval
LayerEval(layer, layerIn, one) ==
  [j \in 1..Len(layer) |-> NeuronOut(layer[j], layerIn, one)]

\* Network.eval: the layers applied in order from layerIdx (1-based)
RECURSIVE EvalFrom(_, _, _, _)
EvalFrom(weights, layerIn, layerIdx, one) ==
  IF layerIdx > Len(weights) THEN layerIn
  ELSE EvalFrom(weights, LayerEval(weights[layerIdx], layerIn, one),
                layerIdx + 1, one)

\* Network.eval on values in which 1.0 is written `one`; weights are whole
\* numbers
Eval(weights, input, one) == EvalFrom(weights, input, 1, one)

-----------------------------------------------------------------------------
(* Settings.ts: defaults of the configuration the cars read *)

CarWidth == 20
CarHeight == 15
Friction == 100
MaxSpeed == 100
MaxAcceleration == 25
TrackWidth == 800
TrackHeight == 600

\* angle units per pi (maxSteering = pi/2 is PiU \div 2 per second)
PiU == 2000

\* Car.checkSensors: minimum age of sensorReadingTime for a second refresh
SensorInterval == 100
\* Car.tick: accumulated seconds after which a car may be given up
GraceTicks == 3
\* Car.tick: laps of a successful run
WinLaps == 3
\* Car.tickAll: auto-advance waits this long after the last car ended
ResetAfter == 1000
\* the clock value at which the exploration starts (Date.now() is never 0)
StartClock == 1000

\* utils/clamp on finite numbers
Clamp(n, lo, hi) == IF n < lo THEN lo ELSE IF n > hi THEN hi ELSE n

Max2(a, b) == IF a >= b THEN a ELSE b
Abs(a) == IF a < 0 THEN -a ELSE a
Sign(a) == IF a > 0 THEN 1 ELSE IF a < 0 THEN -1 ELSE 0

\* integer quotient rounded toward zero
Trunc(a, b) == IF a >= 0 THEN a \div b ELSE -((-a) \div b)

\* 1000 * max(width, height): scores are kept multiplied by this
ScoreScale == 1000 * Max2(CarWidth, CarHeight)

-----------------------------------------------------------------------------
(* Track.ts *)

NoTrack == "none"
Tracks == {"Basic", "Oval"}

\* BasicTrack and OvalTrack; startingAngle = atan2(startingDirection)
Track(name) ==
  IF name = "Basic"
  THEN [name |-> "Basic", roadThickness |-> 80,
        startingPoint |-> [x |-> 150, y |-> 530],
        startingDirection |-> [x |-> 1, y |-> 0],
        startingAngle |-> 0]
  ELSE [name |-> "Oval", roadThickness |-> 100,
        startingPoint |-> [x |-> 400, y |-> 100],
        startingDirection |-> [x |-> -1, y |-> 0],
        startingAngle |-> PiU]

-----------------------------------------------------------------------------
(* Car.ts: one car *)

\* registry keys: "Manual", and "AI.<source>.<i>"
Manual == [source |-> "Manual", i |-> 0]
AiName(source, i) == [source |-> source, i |-> i]

\* new Car(name): the field initialisers.  epoch, lapOdometer and
\* refreshStart are history fields: the number of placeOnTrack calls on this
\* object, the odometer at the last lap-line crossing that started the timer
\* or counted a lap, and the time of the last refresh started since the
\* placement (-1: none).
NewCar(name) ==
  [name |-> name, track |-> NoTrack,
   position |-> [x |-> 0, y |-> 0], angle |-> 0,
   speed |-> 0, steering |-> 0, acceleration |-> 0,
   odometer |-> 0, laps |-> 0, inCrossing |-> FALSE, crossingDistance |-> 0,
   totalTicks |-> 0, startTime |-> 0, endTime |-> 0, collided |-> FALSE,
   pastTracking |-> <<>>,
   sensorsReady |-> TRUE, sensorReadingTime |-> 0, sensorReadings |-> <<>>,
   net |-> NoNet,
   epoch |-> 0, lapOdometer |-> 0, refreshStart |-> -1]

\* get score(): distance and score are multiplied by ScoreScale, time is ms
Score(c, t) ==
  LET time == (IF c.endTime # 0 THEN c.endTime ELSE t)
              - (IF c.startTime # 0 THEN c.startTime ELSE t)
  IN [distance |-> c.odometer,
      time |-> time,
      laps |-> c.laps,
      success |-> ~c.collided /\ c.laps >= 3 /\ c.startTime > 0,
      score |-> IF c.startTime > 0
                THEN Max2(0, c.odometer - Max2(CarWidth, CarHeight) * time)
                     + (c.laps + 1) * (c.laps + 1) * 10 * ScoreScale
                ELSE 0]

\* placeOnTrack(track); random is Math.random() in thousandths
PlaceOnTrack(c, trackName, random, t) ==
  LET track == Track(trackName)
      dir == track.startingDirection
      fudge == IF c.net # NoNet
               THEN random * track.roadThickness - track.roadThickness * 500
               ELSE 0
      trackingRadius == Max2(Max2(CarWidth, CarHeight), track.roadThickness) + 1
  IN [c EXCEPT
        !.track = trackName,
        !.position =
           [x |-> track.startingPoint.x * 1000 - dir.x * CarWidth * 500
                  + Trunc(fudge * dir.y, 2),
            y |-> track.startingPoint.y * 1000 - dir.y * CarHeight * 500
                  - Trunc(fudge * dir.x, 2)],
        !.angle = track.startingAngle,
        !.speed = 0, !.steering = 0, !.acceleration = 0,
        !.odometer = 0, !.laps = 0, !.inCrossing = FALSE,
        !.crossingDistance = 0, !.startTime = 0, !.endTime = 0,
        !.collided = FALSE,
        !.pastTracking =
           <<[x |-> (track.startingPoint.x - dir.x * trackingRadius) * 1000,
              y |-> (track.startingPoint.y - dir.y * trackingRadius) * 1000]>>,
        !.sensorsReady = TRUE, !.sensorReadingTime = t,
        !.epoch = @ + 1, !.lapOdometer = 0, !.refreshStart = -1]

\* settings.sotaScore entry of a track with no record
NoScore ==
  [distance |-> 0, time |-> 0, laps |-> 0, success |-> FALSE, score |-> -1]

HasScore(s) == s # NoScore

\* Math.max(...Object.values(sotaScore).map(s => s ? s.score : 0)):
\* -Infinity (written -1, below every score) when there is no entry
HighScore(sotaScore) ==
  LET set == {tr \in DOMAIN sotaScore : HasScore(sotaScore[tr])}
  IN IF set = {} THEN -1
     ELSE CHOOSE m \in {sotaScore[tr].score : tr \in set} :
            \A tr \in set : sotaScore[tr].score <= m

\* endRun, the car's part (lines 212-219)
EndRunCar(c, collided, t) ==
  [c EXCEPT !.endTime = t,
            !.startTime = IF c.startTime = 0 THEN t ELSE @,
            !.inCrossing = FALSE,
            !.crossingDistance = 0,
            !.collided = collided]

\* EndRunSota with the track's record taken from every scoring car
EndRunSotaOverwrites(c, s, t) ==
  LET score == Score(c, t)
  IN IF c.track = NoTrack \/ c.net = NoNet \/ score.score <= 0 THEN s
     ELSE IF score.score > HighScore(s.sotaScore)
          THEN [s EXCEPT !.sotaNet = c.net.config,
                         !.sotaScore[c.track] = score]
     ELSE [s EXCEPT !.sotaScore[c.track] = score]

\* EndRunSota with the best car of a track taken for the champion
EndRunSotaCrownsTrackBest(c, s, t) ==
  LET score == Score(c, t)
      own == IF HasScore(s.sotaScore[c.track]) THEN s.sotaScore[c.track].score
             ELSE 0
  IN IF c.track = NoTrack \/ c.net = NoNet \/ score.score <= 0 THEN s
     ELSE IF score.score > HighScore(s.sotaScore) \/ score.score > own
          THEN [s EXCEPT !.sotaNet = c.net.config,
                         !.sotaScore[c.track] = score]
     ELSE s

\* endRun, the SOTA part (lines 221-238), on the car as endRun left it
EndRunSota(c, s, t) ==
  LET score == Score(c, t)
      own == IF HasScore(s.sotaScore[c.track]) THEN s.sotaScore[c.track].score
             ELSE 0
  IN IF c.track = NoTrack \/ c.net = NoNet \/ score.score <= 0 THEN s
     ELSE IF score.score > HighScore(s.sotaScore)
          THEN [s EXCEPT !.sotaNet = c.net.config,
                         !.sotaScore[c.track] = score]
     ELSE IF score.score > own
          THEN [s EXCEPT !.sotaScore[c.track] = score]
     ELSE s

\* endRun(collided = true)
EndRun(c, s, t) ==
  [car |-> EndRunCar(c, TRUE, t),
   settings |-> EndRunSota(EndRunCar(c, TRUE, t), s, t),
   start |-> FALSE]

\* checkCollision, lines 499-507: the angle between the heading and the
\* track's starting angle, in [0, PiU]
CrossAngle(a1, a2) ==
  LET d == Abs((IF a1 < 0 THEN a1 + 2 * PiU ELSE a1)
               - (IF a2 < 0 THEN a2 + 2 * PiU ELSE a2))
  IN IF d > PiU THEN 2 * PiU - d ELSE d

\* carWidth + carHeight + roadThickness, in 1/1000 px
LapLength(c) == (CarWidth + CarHeight + Track(c.track).roadThickness) * 1000

\* CheckCollision without the direction test on the falling edge
CheckCollisionNoTurnAround(c, lapping, offTrack, t) ==
  LET wrongWay == 2 * CrossAngle(c.angle, Track(c.track).startingAngle) > PiU
  IN IF lapping /\ ~c.inCrossing
        /\ (c.crossingDistance = 0 \/ c.odometer >= c.crossingDistance + 1000)
     THEN LET c1 == [c EXCEPT !.inCrossing = TRUE,
                              !.crossingDistance = c.odometer]
          IN IF wrongWay THEN [car |-> c1, collision |-> TRUE]
             ELSE IF c1.startTime = 0
                  THEN [car |-> [c1 EXCEPT !.startTime = t,
                                           !.lapOdometer = c.odometer],
                        collision |-> offTrack]
             ELSE IF c1.odometer < LapLength(c)
                  THEN [car |-> c1, collision |-> TRUE]
             ELSE [car |-> [c1 EXCEPT !.laps = @ + 1,
                                      !.lapOdometer = c.odometer],
                   collision |-> offTrack]
     ELSE IF ~lapping /\ c.inCrossing
             /\ c.odometer >= c.crossingDistance + 1000
     THEN [car |-> [c EXCEPT !.inCrossing = FALSE,
                             !.crossingDistance = c.odometer],
           collision |-> offTrack]
     ELSE [car |-> c, collision |-> offTrack]

\* checkCollision(mask): lapping and offTrack are what the footprint pixels
\* of the composed mask show
CheckCollision(c, lapping, offTrack, t) ==
  LET wrongWay == 2 * CrossAngle(c.angle, Track(c.track).startingAngle) > PiU
  IN IF lapping /\ ~c.inCrossing
        /\ (c.crossingDistance = 0 \/ c.odometer >= c.crossingDistance + 1000)
     THEN LET c1 == [c EXCEPT !.inCrossing = TRUE,
                              !.crossingDistance = c.odometer]
          IN IF wrongWay THEN [car |-> c1, collision |-> TRUE]
             ELSE IF c1.startTime = 0
                  THEN [car |-> [c1 EXCEPT !.startTime = t,
                                           !.lapOdometer = c.odometer],
                        collision |-> offTrack]
             ELSE IF c1.odometer < LapLength(c)
                  THEN [car |-> c1, collision |-> TRUE]
             ELSE [car |-> [c1 EXCEPT !.laps = @ + 1,
                                      !.lapOdometer = c.odometer],
                   collision |-> offTrack]
     ELSE IF ~lapping /\ c.inCrossing
             /\ c.odometer >= c.crossingDistance + 1000
     THEN [car |-> [c EXCEPT !.inCrossing = FALSE,
                             !.crossingDistance = c.odometer],
           collision |-> wrongWay \/ offTrack]
     ELSE [car |-> c, collision |-> offTrack]

\* manualControl(): keys says which of the shortcut groups is held down
ManualControl(c, keys) ==
  [c EXCEPT
     !.acceleration =
        IF keys.down THEN Clamp(c.acceleration - 100, -1000, -100)
        ELSE IF keys.up THEN Clamp(c.acceleration + 100, 100, 1000)
        ELSE 0,
     !.steering =
        IF keys.left THEN Clamp(c.steering - 100, -1000, -100)
        ELSE IF keys.right THEN Clamp(c.steering + 100, 100, 1000)
        ELSE 0]

\* cos on [0, PiU/2] in thousandths (Bhaskara's rational approximation,
\* exact at 0, PiU/3 and PiU/2)
CosQuarter(a) ==
  ((PiU * PiU - 4 * a * a) * 10) \div ((PiU * PiU + a * a) \div 100)

\* Math.cos in thousandths, for any angle
Cos(a) ==
  LET m == a % (2 * PiU)
      f == IF m > PiU THEN 2 * PiU - m ELSE m
  IN IF 2 * f <= PiU THEN CosQuarter(f) ELSE -CosQuarter(PiU - f)

\* Math.sin in thousandths
Sin(a) == Cos(a - PiU \div 2)

\* tick, lines 312-319: steering for dt ms
\* maxSteering * steering * dt = (PiU/2) * (steering/1000) * (dt/1000)
Steer(c, dt) ==
  LET st == Clamp(Clamp(c.steering, -1000, 1000), -c.speed, c.speed)
  IN IF Abs(st) >= 10
     THEN [c EXCEPT
             !.angle = @ + Trunc((PiU \div 2) * Trunc(st * dt, 1000), 1000),
             !.steering = st - Sign(st) * Trunc(Friction * dt, 1000),
             !.speed = @ - Trunc(Trunc(Friction * @, 1000) * dt, 1000)]
     ELSE [c EXCEPT !.steering = st]

\* tick, lines 320-324: the angle brought back once into (-pi, pi]
WrapAngle(c) ==
  [c EXCEPT !.angle = IF @ > PiU THEN @ - 2 * PiU
                      ELSE IF @ < -PiU THEN @ + 2 * PiU ELSE @]

\* tick, lines 326-335: acceleration and braking for dt ms
Accelerate(c, dt) ==
  LET ac == Clamp(c.acceleration, -1000, 1000)
  IN IF Abs(ac) >= 10
     THEN [c EXCEPT
             !.speed = Clamp(@ + Trunc(MaxAcceleration * ac * dt, 1000),
                             0, MaxSpeed * 1000),
             !.acceleration = ac - Sign(ac) * Trunc(Friction * dt, 1000)]
     ELSE [c EXCEPT
             !.speed = Clamp(@ - Trunc(Trunc(Friction * @, 1000) * dt, 1000),
                             0, MaxSpeed * 1000),
             !.acceleration = ac]

\* tick, lines 337-339: movement for dt ms at the speed and angle reached
Move(c, dt) ==
  [c EXCEPT
     !.position = [x |-> @.x + Trunc(Cos(c.angle) * Trunc(c.speed * dt, 1000), 1000),
                   y |-> @.y + Trunc(Sin(c.angle) * Trunc(c.speed * dt, 1000), 1000)],
     !.odometer = @ + Trunc(c.speed * dt, 1000)]

\* tick, lines 309-339
Physics(c, dt) ==
  Move(Accelerate(WrapAngle(Steer([c EXCEPT !.totalTicks = @ + dt], dt)), dt),
       dt)

\* lines 341-346
OutOfBounds(c) ==
  \/ c.position.x <= 0 \/ c.position.x >= TrackWidth * 1000
  \/ c.position.y <= 0 \/ c.position.y >= TrackHeight * 1000

\* Math.hypot(p - position) compared with trackingRadius, in 1/10 px:
\* -1, 0 or 1 as the distance is below, at or above the radius
CompareDist(p, q, radius) ==
  LET dx == Trunc(p.x - q.x, 100)
      dy == Trunc(p.y - q.y, 100)
  IN Sign(dx * dx + dy * dy - radius * radius * 100)

TrackingRadius(c) ==
  Max2(Max2(CarWidth, CarHeight), Track(c.track).roadThickness)

\* CheckSensors without the test of lines 418-420
CheckSensorsUnguarded(c, s, t) ==
  IF c.track = NoTrack \/ c.collided
  THEN [car |-> c, settings |-> s, start |-> FALSE]
  ELSE [car |-> [c EXCEPT !.sensorsReady = FALSE, !.refreshStart = t],
        settings |-> s, start |-> TRUE]

\* checkSensors, lines 412-422: whether a refresh is started, and the car
CheckSensors(c, s, t) ==
  IF c.track = NoTrack \/ c.collided
  THEN [car |-> c, settings |-> s, start |-> FALSE]
  ELSE IF ~c.sensorsReady /\ t - c.sensorReadingTime < SensorInterval
  THEN [car |-> c, settings |-> s, start |-> FALSE]
  ELSE [car |-> [c EXCEPT !.sensorsReady = FALSE, !.refreshStart = t],
        settings |-> s, start |-> TRUE]

\* Tracking with the test of line 368 made on every waypoint, the most
\* recently inserted one included
TrackingTestsLatest(c, s, t) ==
  LET r == TrackingRadius(c)
      n == Len(c.pastTracking)
      cmp == [i \in 1..n |-> CompareDist(c.pastTracking[i], c.position, r)]
  IN IF n = 0 \/ \A i \in 1..n : cmp[i] > 0
     THEN LET pushed == <<c.position>> \o c.pastTracking
          IN CheckSensors(
               [c EXCEPT !.pastTracking =
                  IF Len(pushed) > 3 THEN SubSeq(pushed, 1, 3) ELSE pushed],
               s, t)
     ELSE IF n > 1 /\ \E i \in 1..n : cmp[i] < 0
     THEN EndRun(c, s, t)
     ELSE CheckSensors(c, s, t)

\* Tracking without the pop of lines 362-364
TrackingKeepsAll(c, s, t) ==
  LET r == TrackingRadius(c)
      n == Len(c.pastTracking)
      cmp == [i \in 1..n |-> CompareDist(c.pastTracking[i], c.position, r)]
  IN IF n = 0 \/ \A i \in 1..n : cmp[i] > 0
     THEN CheckSensors(
            [c EXCEPT !.pastTracking = <<c.position>> \o c.pastTracking],
            s, t)
     ELSE IF n > 1 /\ \E i \in 2..n : cmp[i] < 0
     THEN EndRun(c, s, t)
     ELSE CheckSensors(c, s, t)

\* tick, lines 351-376: the waypoints, then checkSensors
Tracking(c, s, t) ==
  LET r == TrackingRadius(c)
      n == Len(c.pastTracking)
      cmp == [i \in 1..n |-> CompareDist(c.pastTracking[i], c.position, r)]
  IN IF n = 0 \/ \A i \in 1..n : cmp[i] > 0
     THEN LET pushed == <<c.position>> \o c.pastTracking
          IN CheckSensors(
               [c EXCEPT !.pastTracking =
                  IF Len(pushed) > 3 THEN SubSeq(pushed, 1, 3) ELSE pushed],
               s, t)
     ELSE IF n > 1 /\ \E i \in 2..n : cmp[i] < 0
     THEN EndRun(c, s, t)
     ELSE CheckSensors(c, s, t)

\* LostCause without the totalTicks > 3 of lines 296 and 299
LostCauseNoGrace(c, t) ==
  IF Score(c, t).score <= 0 THEN "not going anywhere"
  ELSE IF 2 * Score(c, t).score <= Max2(CarWidth, CarHeight) * Score(c, t).time
  THEN "going too slow"
  ELSE IF Score(c, t).laps >= WinLaps THEN "finished"
  ELSE "go"

\* tick, lines 294-306: why an AI car is ended before it moves, or "go"
LostCause(c, t) ==
  LET score == Score(c, t)
  IN IF score.score < -10 * ScoreScale
        \/ (c.totalTicks > GraceTicks * 1000 /\ score.score <= 0)
     THEN "not going anywhere"
     ELSE IF c.totalTicks > GraceTicks * 1000
             /\ 2 * score.score <= Max2(CarWidth, CarHeight) * score.time
     THEN "going too slow"
     ELSE IF score.laps >= WinLaps THEN "finished"
     ELSE "go"

\* AfterPhysics without the test of lines 340-349
AfterPhysicsUnbounded(moved, s, t) == Tracking(moved, s, t)

\* tick, lines 340-376, on the car as the physics left it
AfterPhysics(moved, s, t) ==
  IF OutOfBounds(moved) THEN EndRun(moved, s, t) ELSE Tracking(moved, s, t)

\* Tick without the test of line 287
TickIgnoresCollided(c, s, dt, t, keys) ==
  IF c.name # Manual /\ LostCause(c, t) # "go"
  THEN EndRun(c, s, t)
  ELSE AfterPhysics(Physics(IF c.name = Manual THEN ManualControl(c, keys)
                            ELSE c, dt),
                    s, t)

\* tick(dt): the car and the settings after it, and whether it started a
\* perception refresh
Tick(c, s, dt, t, keys) ==
  IF c.collided \/ c.track = NoTrack
  THEN [car |-> c, settings |-> s, start |-> FALSE]
  ELSE IF c.name # Manual /\ LostCause(c, t) # "go"
  THEN EndRun(c, s, t)
  ELSE AfterPhysics(Physics(IF c.name = Manual THEN ManualControl(c, keys)
                            ELSE c, dt),
                    s, t)
-----------------------------------------------------------------------------
(* Bounds of the car exploration *)

\* cars spawned per breeding source (numSimulations entries range over 0..)
MaxPerSource == 1
\* Car objects ever constructed
MaxObjects == 3
\* generations
MaxIterations == 3
\* unsettled refreshes of one car
MaxPending == 2
\* clock advances, in units of ClockUnit
MaxClock == 2
\* placements of one car
MaxPlacements == 2
\* accumulated tick time of a car, in calls of the longest tick: of a car
\* watched for its refreshes, of a car watched for its laps
MaxCarTicks == 2
MaxLapTicks == 4

-----------------------------------------------------------------------------
(* Inputs of the car exploration *)

\* Settings.sensors has five entries
NumSensors == 5

ClockUnit == SensorInterval \div 2

\* dt of Car.tickAll: 0 while paused, maxTickSecs, and maxTickSecs at a time
\* dilation of 1/10
LongTick == 1000
ShortTick == 500
TickSizes == {ShortTick, LongTick}

\* Math.random() in thousandths: of the pick of a parent, of the placement
Randoms == {0, 500}
PlaceRandoms == {500}

\* what a composed mask shows under the footprint and along the rays, or the
\* rejection of the promise: ok tells whether composeImage and the pixel read
\* of checkCollision succeed, read whether the pixel read of Sensor.readAll
\* does
Outcomes ==
  {[ok |-> TRUE, read |-> TRUE, lapping |-> FALSE, offTrack |-> FALSE,
    reading |-> 1000],
   [ok |-> TRUE, read |-> TRUE, lapping |-> TRUE, offTrack |-> FALSE,
    reading |-> 1000],
   [ok |-> TRUE, read |-> TRUE, lapping |-> FALSE, offTrack |-> TRUE,
    reading |-> 500],
   [ok |-> FALSE, read |-> FALSE, lapping |-> FALSE, offTrack |-> FALSE,
    reading |-> 0]}

\* the outcomes with those in which Sensor.readAll throws after checkCollision
\* has run
FailOutcomes ==
  Outcomes \cup
    {[ok |-> TRUE, read |-> FALSE, lapping |-> l, offTrack |-> o, reading |-> 0] :
       l \in BOOLEAN, o \in BOOLEAN}

\* the outcomes that tell the cars of a generation apart
GenOutcomes == {o \in Outcomes : o.ok /\ ~o.lapping}

NoKeys == [down |-> FALSE, up |-> FALSE, left |-> FALSE, right |-> FALSE]
KeyStates == {NoKeys, [NoKeys EXCEPT !.up = TRUE]}

\* deviations of one randomStep from the weights, in whole weights: none, or
\* one on the entry eval reads as the bias of the first or second output
NoiseKinds == {"zero", "accel"}

Noise(z, i, j, k) ==
  IF z = "accel" /\ i = 1 /\ j = 1 /\ k = NumSensors + 4 THEN 1
  ELSE IF z = "first" /\ i = 1 /\ j = 1 /\ k = 1 THEN 1
  ELSE IF z = "turn" /\ i = 1 /\ j = 1 /\ k = NumSensors + 4 THEN 1
  ELSE IF z = "turn" /\ i = 1 /\ j = 2 /\ k = NumSensors + 4 THEN -1
  ELSE 0

-----------------------------------------------------------------------------
(* Settings.ts: the trainer's fields *)

\* Network.init(input, output, []): all weights 0
NetworkInit(input, output) ==
  [input |-> input, hidden |-> <<>>, output |-> output,
   weights |-> <<[j \in 1..output |-> [k \in 1..(input + 1) |-> 0]]>>]

\* lastTick before the first call of Settings.tick: undefined
NoTick == 0

\* the fields of Settings the model follows; fired is history: the clock
\* time at which Settings.tick last called onSave and onRender (0: never)
SettingsInit ==
  [manualControl |-> FALSE,
   autoAdvance |-> FALSE,
   numIterations |-> 0,
   numSimulations |-> [globalBest |-> 1, trackBest |-> 1, trackRandom |-> 0],
   sotaScore |-> [tr \in Tracks |-> NoScore],
   sotaNet |-> NetworkInit(NumSensors + 4, 2),
   lastTick |-> NoTick,
   lastSaved |-> 0,
   lastLoaded |-> StartClock,
   lastRender |-> 0,
   fired |-> [save |-> 0, render |-> 0]]

-----------------------------------------------------------------------------
(* Network.ts: randomStep *)

\* utils/gaussian(mean, stdev) for the sample whose deviation from the mean
\* is z: the mean itself when stdev is 0
Gaussian(mean, stdev, z) == IF stdev = 0 THEN mean ELSE mean + z

\* RandomStep with the arguments of gaussian exchanged
RandomStepSwapsArguments(cfg, stdev, z) ==
  [cfg EXCEPT !.weights =
     [i \in 1..Len(cfg.weights) |->
        [j \in 1..Len(cfg.weights[i]) |->
           [k \in 1..Len(cfg.weights[i][j]) |->
              Gaussian(stdev, cfg.weights[i][j][k], Noise(z, i, j, k))]]]]

\* RandomStep mapping every neuron without its last entry
RandomStepDropsBias(cfg, stdev, z) ==
  [cfg EXCEPT !.weights =
     [i \in 1..Len(cfg.weights) |->
        [j \in 1..Len(cfg.weights[i]) |->
           [k \in 1..(Len(cfg.weights[i][j]) - 1) |->
              Gaussian(cfg.weights[i][j][k], stdev, Noise(z, i, j, k))]]]]

\* randomStep(stdev) with the noise z
RandomStep(cfg, stdev, z) ==
  [cfg EXCEPT !.weights =
     [i \in 1..Len(cfg.weights) |->
        [j \in 1..Len(cfg.weights[i]) |->
           [k \in 1..Len(cfg.weights[i][j]) |->
              Gaussian(cfg.weights[i][j][k], stdev, Noise(z, i, j, k))]]]]

\* Math.sqrt on whole numbers up to 1000^2, rounded down
Sqrt(n) == CHOOSE r \in 0..1000 : r * r <= n /\ n < (r + 1) * (r + 1)

\* calcStdDev(score), in thousandths
CalcStdDev(score) ==
  IF ~HasScore(score) \/ score.score = 0 \/ score.distance = 0 \/ score.time = 0
  THEN 1000
  ELSE LET q == (10 * ScoreScale * 1000) \div score.score
       IN IF q >= 1000 THEN 1000 ELSE Clamp(Sqrt(q * 1000), 100, 1000)

-----------------------------------------------------------------------------
(* Car.ts: the registry and the trainer *)

\* position of a name in the registry, 0 if absent
RegIndex(reg, name) ==
  IF \E i \in 1..Len(reg) : reg[i].name = name
  THEN CHOOSE i \in 1..Len(reg) : reg[i].name = name
  ELSE 0

\* Car.registry.get()[name] = car: a known key keeps its place
Register(reg, name, id) ==
  IF RegIndex(reg, name) # 0
  THEN [reg EXCEPT ![RegIndex(reg, name)].id = id]
  ELSE Append(reg, [name |-> name, id |-> id])

\* delete cars[name]
Unregister(reg, name) == SelectSeq(reg, LAMBDA e : e.name # name)

\* the pending refreshes of one placement of one car are numbered 1..n
PendingOf(pend, id) == {p \in pend : p.car = id}

AddPending(pend, id, epoch) ==
  pend \cup {[car |-> id, epoch |-> epoch,
              k |-> 1 + Cardinality({p \in pend : p.car = id /\ p.epoch = epoch})]}

RemovePending(pend, p) ==
  LET same == {q \in pend : q.car = p.car /\ q.epoch = p.epoch}
  IN pend \ {[p EXCEPT !.k = Cardinality(same)]}

\* objects no longer reachable from the registry or a promise are dropped
Collect(h, reg, pend) ==
  [id \in {i \in DOMAIN h : (\E e \in 1..Len(reg) : reg[e].id = i)
                            \/ PendingOf(pend, i) # {}} |-> h[id]]

World == [heap |-> heap, registry |-> registry, pending |-> pending,
          settings |-> settings, nextId |-> nextId]

\* new Car(name) with autoRegister; the net is assigned by the caller
Construct(w, name, carNet) ==
  [w EXCEPT !.heap = [id \in DOMAIN w.heap \cup {w.nextId} |->
                        IF id = w.nextId
                        THEN [NewCar(name) EXCEPT !.net = carNet]
                        ELSE w.heap[id]],
            !.registry = Register(w.registry, name, w.nextId),
            !.nextId = @ + 1]

\* Car.tickAll, line 592: the world after one car's tick returned r
Ticked(w, id, r) ==
  [w EXCEPT !.heap[id] = r.car,
            !.settings = r.settings,
            !.pending = IF r.start THEN AddPending(@, id, r.car.epoch) ELSE @]

\* Car.tickAll, line 592: the registered cars ticked in order from position i
RECURSIVE TickCars(_, _, _, _, _)
TickCars(w, i, dt, t, keys) ==
  IF i > Len(w.registry) THEN w
  ELSE TickCars(Ticked(w, w.registry[i].id,
                       Tick(w.heap[w.registry[i].id], w.settings, dt, t, keys)),
                i + 1, dt, t, keys)

\* ReplaceManual keeping a manual car that is on another track
ReplaceManualAnyTrack(w, trackName, t) ==
  LET m == RegIndex(w.registry, Manual)
  IN IF w.settings.manualControl
        /\ (m = 0 \/ w.heap[w.registry[m].id].collided)
     THEN [w EXCEPT !.heap = [id \in DOMAIN w.heap \cup {w.nextId} |->
                                IF id = w.nextId
                                THEN PlaceOnTrack(NewCar(Manual), trackName, 0, t)
                                ELSE w.heap[id]],
                    !.registry = Register(w.registry, Manual, w.nextId),
                    !.nextId = @ + 1]
     ELSE IF ~w.settings.manualControl /\ m # 0
     THEN [w EXCEPT !.registry = Unregister(@, Manual)]
     ELSE w

\* nextGeneration, lines 606-617: the manual driver
ReplaceManual(w, trackName, t) ==
  LET m == RegIndex(w.registry, Manual)
  IN IF w.settings.manualControl
        /\ (m = 0 \/ w.heap[w.registry[m].id].collided
                  \/ w.heap[w.registry[m].id].track # trackName)
     THEN [w EXCEPT !.heap = [id \in DOMAIN w.heap \cup {w.nextId} |->
                                IF id = w.nextId
                                THEN PlaceOnTrack(NewCar(Manual), trackName, 0, t)
                                ELSE w.heap[id]],
                    !.registry = Register(w.registry, Manual, w.nextId),
                    !.nextId = @ + 1]
     ELSE IF ~w.settings.manualControl /\ m # 0
     THEN [w EXCEPT !.registry = Unregister(@, Manual)]
     ELSE w

\* nextGeneration, lines 620-622: ids of the registered cars that are not the
\* manual one and carry a net, in registry order
AiCars(w) ==
  LET sel == SelectSeq(w.registry,
                       LAMBDA e : e.name # Manual /\ w.heap[e.id].net # NoNet)
  IN [i \in 1..Len(sel) |-> sel[i].id]

\* line 623
StillRacing(w, trackName) ==
  \E i \in 1..Len(AiCars(w)) :
     LET c == w.heap[AiCars(w)[i]]
     IN ~c.collided /\ c.track = trackName

\* line 628: the world after one car's endRun returned r
Ended(w, id, r) == [w EXCEPT !.heap[id] = r.car, !.settings = r.settings]

\* line 628: endRun on every AI car, in order from position i
RECURSIVE EndAll(_, _, _, _)
EndAll(w, ids, i, t) ==
  IF i > Len(ids) THEN w
  ELSE EndAll(Ended(w, ids[i], EndRun(w.heap[ids[i]], w.settings, t)),
              ids, i + 1, t)

\* line 629: the place the stable descending sort gives to position i of ids
SortRank(w, ids, i, t) ==
  1 + Cardinality({j \in 1..Len(ids) :
                     \/ Score(w.heap[ids[j]], t).score
                          > Score(w.heap[ids[i]], t).score
                     \/ /\ j < i
                        /\ Score(w.heap[ids[j]], t).score
                             = Score(w.heap[ids[i]], t).score})

\* line 629: ids as aiCars.sort leaves it
SortByScore(w, ids, t) ==
  [k \in 1..Len(ids) |->
     ids[CHOOSE i \in 1..Len(ids) : SortRank(w, ids, i, t) = k]]

\* Brood with the first copy of the champion mutated like the others
BroodMutatesChampion(counts, sotaNet, sotaScore, trackNet, trackScore, randomNet, randomScore) ==
  [i \in 1..counts.globalBest |->
     [name |-> AiName("AI.globalBest", i - 1), parent |-> sotaNet,
      stdev |-> CalcStdDev(sotaScore)]]
  \o
  [i \in 1..counts.trackBest |->
     [name |-> AiName("AI.trackBest", i - 1), parent |-> trackNet,
      stdev |-> IF i = 1 /\ trackScore.score # sotaScore.score THEN 0
                ELSE CalcStdDev(trackScore)]]
  \o
  [i \in 1..counts.trackRandom |->
     [name |-> AiName("AI.trackRandom", i - 1), parent |-> randomNet,
      stdev |-> CalcStdDev(randomScore)]]

\* lines 642-655: the cars to construct from the three parents, in order:
\* name, parent net, stdev
Brood(counts, sotaNet, sotaScore, trackNet, trackScore, randomNet, randomScore) ==
  [i \in 1..counts.globalBest |->
     [name |-> AiName("AI.globalBest", i - 1), parent |-> sotaNet,
      stdev |-> IF i = 1 THEN 0 ELSE CalcStdDev(sotaScore)]]
  \o
  [i \in 1..counts.trackBest |->
     [name |-> AiName("AI.trackBest", i - 1), parent |-> trackNet,
      stdev |-> IF i = 1 /\ trackScore.score # sotaScore.score THEN 0
                ELSE CalcStdDev(trackScore)]]
  \o
  [i \in 1..counts.trackRandom |->
     [name |-> AiName("AI.trackRandom", i - 1), parent |-> randomNet,
      stdev |-> CalcStdDev(randomScore)]]

\* lines 632-656: the cars to construct; ids is the sorted aiCars, pick the
\* Math.random() of line 636
Offspring(w, trackName, ids, pick, t) ==
  IF Len(ids) > 0
  THEN Brood(w.settings.numSimulations,
             w.settings.sotaNet, w.settings.sotaScore[trackName],
             w.heap[ids[1]].net.config, Score(w.heap[ids[1]], t),
             w.heap[ids[(pick * Len(ids)) \div 1000 + 1]].net.config,
             Score(w.heap[ids[(pick * Len(ids)) \div 1000 + 1]], t))
  ELSE Brood(w.settings.numSimulations,
             w.settings.sotaNet, w.settings.sotaScore[trackName],
             w.settings.sotaNet, w.settings.sotaScore[trackName],
             w.settings.sotaNet, w.settings.sotaScore[trackName])

\* the constructions of lines 642-655, in order from position i
RECURSIVE Spawn(_, _, _, _)
Spawn(w, kids, i, z) ==
  IF i > Len(kids) THEN w
  ELSE Spawn(Construct(w, kids[i].name,
                       [config |-> RandomStep(kids[i].parent, kids[i].stdev, z)]),
             kids, i + 1, z)

\* PlaceAll placing every registered car, with or without a track
RECURSIVE PlaceAllAgain(_, _, _, _, _)
PlaceAllAgain(w, i, trackName, random, t) ==
  IF i > Len(w.registry) THEN w
  ELSE PlaceAllAgain([w EXCEPT !.heap[w.registry[i].id] =
                        PlaceOnTrack(@, trackName, random, t)],
                     i + 1, trackName, random, t)

\* lines 661-665: every registered car without a track is placed
RECURSIVE PlaceAll(_, _, _, _, _)
PlaceAll(w, i, trackName, random, t) ==
  IF i > Len(w.registry) THEN w
  ELSE LET id == w.registry[i].id
       IN PlaceAll(IF w.heap[id].track = NoTrack
                   THEN [w EXCEPT !.heap[id] =
                           PlaceOnTrack(@, trackName, random, t)]
                   ELSE w,
                   i + 1, trackName, random, t)

\* nextGeneration, lines 632-665, on the world w with the AI cars ended; ids
\* is aiCars before the sort
Breed(w, trackName, ids, rnd, t) ==
  IF Validate(w.settings.sotaNet) # "ok"
  THEN [world |-> w, outcome |-> "threw"]
  ELSE [world |->
          PlaceAll([Spawn(w, Offspring(w, trackName, SortByScore(w, ids, t),
                                       rnd.pick, t),
                          1, rnd.z)
                      EXCEPT !.settings.numIterations = @ + 1],
                   1, trackName, rnd.place, t),
        outcome |-> "done"]

\* nextGeneration, lines 620-665, on the world w the manual driver's handling
\* left
AfterManual(w, trackName, force, rnd, t) ==
  IF ~force /\ StillRacing(w, trackName)
  THEN [world |-> w, outcome |-> "early"]
  ELSE Breed(EndAll(w, AiCars(w), 1, t), trackName, AiCars(w), rnd, t)

\* NextGeneration with the AI cars ended ahead of the test of line 623
NextGenerationEndsFirst(w, trackName, force, rnd, t) ==
  IF AfterManual(ReplaceManual(w, trackName, t), trackName, force, rnd, t).outcome
       = "early"
  THEN [world |-> EndAll(ReplaceManual(w, trackName, t),
                         AiCars(ReplaceManual(w, trackName, t)), 1, t),
        outcome |-> "early"]
  ELSE AfterManual(ReplaceManual(w, trackName, t), trackName, force, rnd, t)

\* nextGeneration(track, force) up to its first await.  rnd holds the random
\* draws: pick (the random of line 636, which selects any of the cars),
\* z (the noise of randomStep) and place (the random of placeOnTrack).
\* outcome: "early" (line 624), "threw" (line 632) or "done"
NextGeneration(w, trackName, force, rnd, t) ==
  AfterManual(ReplaceManual(w, trackName, t), trackName, force, rnd, t)

\* the draws of a call that makes none
NoDraw == [pick |-> 0, z |-> "zero", place |-> 500]

RandomDraws ==
  {[pick |-> p, z |-> z, place |-> r] :
     p \in Randoms, z \in NoiseKinds, r \in PlaceRandoms}

\* AutoAdvance without the wait of one second after the last car ended
AutoAdvanceAtOnce(w, rnd, t) ==
  IF /\ w.settings.autoAdvance
     /\ Len(w.registry) > 0
     /\ w.heap[w.registry[1].id].track # NoTrack
     /\ \A i \in 1..Len(w.registry) : w.heap[w.registry[i].id].collided
  THEN NextGeneration(w, w.heap[w.registry[1].id].track, TRUE, rnd, t)
  ELSE [world |-> w, outcome |-> "ticked"]

\* Car.tickAll, lines 593-599, on the world w the ticks left
AutoAdvance(w, rnd, t) ==
  IF /\ w.settings.autoAdvance
     /\ Len(w.registry) > 0
     /\ w.heap[w.registry[1].id].track # NoTrack
     /\ \A i \in 1..Len(w.registry) :
          /\ w.heap[w.registry[i].id].collided
          /\ w.heap[w.registry[i].id].endTime < t - ResetAfter
  THEN NextGeneration(w, w.heap[w.registry[1].id].track, TRUE, rnd, t)
  ELSE [world |-> w, outcome |-> "ticked"]

\* Car.tickAll(dt)
TickAll(w, dt, t, keys, rnd) == AutoAdvance(TickCars(w, 1, dt, t, keys), rnd, t)

\* checkSensors, lines 459-470: the outputs of the net become the controls
Controls(c, outputs) ==
  [c EXCEPT !.acceleration = outputs[1].v, !.steering = outputs[2].v]

\* checkSensors, lines 452-470, for a car c that goes on: the readings are
\* stored and the net, if any, is evaluated on them
Sense(c, reading) ==
  IF c.net = NoNet
  THEN [c EXCEPT !.sensorReadings = [i \in 1..NumSensors |-> reading]]
  ELSE Controls([c EXCEPT !.sensorReadings = [i \in 1..NumSensors |-> reading]],
                Eval(c.net.config.weights,
                     [i \in 1..(NumSensors + 4) |->
                        IF i <= NumSensors THEN Num(reading)
                        ELSE IF i = NumSensors + 1 THEN Num(c.acceleration)
                        ELSE IF i = NumSensors + 2 THEN Num(c.steering)
                        ELSE IF i = NumSensors + 3
                             THEN Num(Trunc(c.speed, MaxSpeed))
                        ELSE Num(Trunc(c.angle * 1000, PiU))],
                     1000))

\* Resolve with the sensors read and the net evaluated ahead of the test of
\* line 448
ResolveSensesFirst(hit, s, o, t) ==
  IF ~o.read
  THEN [car |-> hit.car, settings |-> s]
  ELSE IF hit.collision
  THEN EndRun(Sense(hit.car, o.reading), s, t)
  ELSE [car |-> Sense(hit.car, o.reading), settings |-> s]

\* checkSensors, lines 447-471, on the result hit of checkCollision
Resolve(hit, s, o, t) ==
  IF hit.collision
  THEN EndRun(hit.car, s, t)
  ELSE IF ~o.read
  THEN [car |-> hit.car, settings |-> s]
  ELSE [car |-> Sense(hit.car, o.reading), settings |-> s]

\* checkSensors, lines 445-476: the promise of the refresh of car c is
\* rejected, by composeImage or by a throw in the .then callback
Rejects(c, o, t) ==
  \/ ~o.ok
  \/ ~o.read /\ ~CheckCollision(c, o.lapping, o.offTrack, t).collision

\* checkSensors, lines 477-480
Finally(r, t) ==
  [car |-> [r.car EXCEPT !.sensorsReady = TRUE, !.sensorReadingTime = t],
   settings |-> r.settings]

\* Settle with lines 478-479 moved to the end of the .then callback
SettleFlagsInThen(c, s, o, t) ==
  IF ~o.ok THEN [car |-> c, settings |-> s]
  ELSE IF Rejects(c, o, t)
  THEN Resolve(CheckCollision(c, o.lapping, o.offTrack, t), s, o, t)
  ELSE Finally(Resolve(CheckCollision(c, o.lapping, o.offTrack, t), s, o, t),
               t)

\* the .then/.catch/.finally of checkSensors, lines 445-480, for a refresh of
\* car c settling with outcome o
Settle(c, s, o, t) ==
  Finally(IF ~o.ok THEN [car |-> c, settings |-> s]
          ELSE Resolve(CheckCollision(c, o.lapping, o.offTrack, t), s, o, t),
          t)
-----------------------------------------------------------------------------
(* The operations on the registry, the cars and the settings *)

Op(name, car, trackName, force, outcome) ==
  [op |-> name, car |-> car, track |-> trackName, force |-> force,
   outcome |-> outcome]

InitWorld ==
  [heap |-> <<>>, registry |-> <<>>, pending |-> {},
   settings |-> SettingsInit, nextId |-> 1]

\* the registry, the cars and the settings are those of w
StateIs(w) ==
  /\ heap = w.heap
  /\ registry = w.registry
  /\ pending = w.pending
  /\ settings = w.settings
  /\ nextId = w.nextId

InitCars ==
  /\ now = StartClock
  /\ StateIs(InitWorld)
  /\ lastOp = Op("init", 0, NoTrack, FALSE, "none")

NetIdle ==
  /\ netCfg = NetworkInit(NumSensors + 4, 2)
  /\ net = NoNet
  /\ netErr = "none"
  /\ evalIn = <<>>
  /\ evalOut = <<>>

WithinBounds(w) ==
  /\ w.nextId <= MaxObjects + 1
  /\ w.settings.numIterations <= MaxIterations
  /\ \A id \in DOMAIN w.heap :
       /\ Cardinality(PendingOf(w.pending, id)) <= MaxPending
       /\ w.heap[id].epoch <= MaxPlacements

TicksWithin(w, maxTicks) ==
  \A id \in DOMAIN w.heap : w.heap[id].totalTicks <= maxTicks * LongTick

Install(w) ==
  /\ WithinBounds(w)
  /\ heap' = Collect(w.heap, w.registry, w.pending)
  /\ registry' = w.registry
  /\ pending' = w.pending
  /\ settings' = w.settings
  /\ nextId' = w.nextId

\* the result r of an operation becomes the state; op describes the call
Commit(r, op) ==
  /\ Install(r.world)
  /\ lastOp' = [op EXCEPT !.outcome = r.outcome]

\* the car and the settings a call on the car id returned become the state
CommitCar(id, r, w, op) ==
  /\ Install([w EXCEPT !.heap[id] = r.car, !.settings = r.settings])
  /\ lastOp' = op

\* time passes
AdvanceClock(steps, maxClock) ==
  /\ \E d \in steps :
       /\ now + d <= StartClock + maxClock * ClockUnit
       /\ now' = now + d
  /\ lastOp' = Op("clock", 0, NoTrack, FALSE, "none")
  /\ UNCHANGED <<heap, registry, pending, settings, nextId>>
  /\ UNCHANGED netVars

\* line 596 on the cars as they are before the ticks of this call
AllEnded(w, t) ==
  \A i \in 1..Len(w.registry) : w.heap[w.registry[i].id].collided

\* Commit for a tickAll, which the bound on the cars' driving time limits
CommitTicks(r, maxTicks, op) ==
  /\ TicksWithin(r.world, maxTicks)
  /\ Commit(r, op)

\* Settings.tick dispatches one sub-step: Car.tickAll(dt).  The keys are read
\* only by a manual car and the random draws only by nextGeneration.
DoTickAll(sizes, keyStates, maxTicks) ==
  /\ registry # <<>>
  /\ \E dt \in sizes,
        keys \in IF RegIndex(registry, Manual) # 0 THEN keyStates ELSE {NoKeys},
        rnd \in IF settings.autoAdvance /\ AllEnded(World, now)
                THEN RandomDraws ELSE {NoDraw} :
       CommitTicks(TickAll(World, dt, now, keys, rnd), maxTicks,
                   Op("tickAll", dt, NoTrack, FALSE, "none"))
  /\ UNCHANGED now
  /\ UNCHANGED netVars

\* the promise of a perception refresh settles.  lastOp.force tells whether
\* the image resolved and showed the footprint over off-track pixels,
\* lastOp.track whether the promise was rejected ("rejected") or not
SettleRefresh(outcomes) ==
  /\ \E p \in pending, o \in outcomes :
       CommitCar(p.car, Settle(heap[p.car], settings, o, now),
                 [World EXCEPT !.pending = RemovePending(@, p)],
                 Op("settle", p.car,
                    IF Rejects(heap[p.car], o, now) THEN "rejected"
                    ELSE NoTrack,
                    o.ok /\ o.offTrack,
                    IF p.epoch = heap[p.car].epoch THEN "fresh" ELSE "stale"))
  /\ UNCHANGED now
  /\ UNCHANGED netVars

\* Car.nextGeneration(track, force): the iteration button (force), a change
\* of track or the first render (no force)
DoNextGeneration(draws) ==
  /\ \E trackName \in Tracks, force \in BOOLEAN, rnd \in draws :
       Commit(NextGeneration(World, trackName, force, rnd, now),
              Op("nextGeneration", 0, trackName, force, "none"))
  /\ UNCHANGED now
  /\ UNCHANGED netVars

\* the "Manually Controlled Car" toggle: settings.set, then
\* nextGeneration(track, false)
ToggleManualControl(draws) ==
  /\ \E trackName \in Tracks, rnd \in draws :
       Commit(NextGeneration([World EXCEPT !.settings.manualControl = ~@],
                             trackName, FALSE, rnd, now),
              Op("toggleManual", 0, trackName, FALSE, "none"))
  /\ UNCHANGED now
  /\ UNCHANGED netVars

\* Settings.set({numSimulations}) (loaded or imported settings)
SetNumSimulations ==
  /\ \E g \in 0..MaxPerSource, b \in 0..MaxPerSource, r \in 0..MaxPerSource :
       /\ [globalBest |-> g, trackBest |-> b, trackRandom |-> r]
            # settings.numSimulations
       /\ settings' = [settings EXCEPT !.numSimulations =
                         [globalBest |-> g, trackBest |-> b, trackRandom |-> r]]
  /\ lastOp' = Op("setNumSimulations", 0, NoTrack, FALSE, "none")
  /\ UNCHANGED <<now, heap, registry, pending, nextId>>
  /\ UNCHANGED netVars

\* car.placeOnTrack(track) on a registered car
DoPlaceOnTrack ==
  /\ \E e \in 1..Len(registry), trackName \in Tracks, random \in PlaceRandoms :
       LET id == registry[e].id
       IN /\ Install([World EXCEPT !.heap[id] =
                        PlaceOnTrack(@, trackName, random, now)])
          /\ lastOp' = Op("placeOnTrack", id, trackName, FALSE, "none")
  /\ UNCHANGED now
  /\ UNCHANGED netVars

\* car.endRun() on a registered car
DoEndRun ==
  /\ \E e \in 1..Len(registry) :
       CommitCar(registry[e].id,
                 EndRun(heap[registry[e].id], settings, now), World,
                 Op("endRun", registry[e].id, NoTrack, FALSE, "none"))
  /\ UNCHANGED now
  /\ UNCHANGED netVars

-----------------------------------------------------------------------------
(* The trainer over the population of its registry *)

Init == InitCars /\ NetIdle

NextPop ==
  \/ DoNextGeneration({NoDraw})
  \/ ToggleManualControl({NoDraw})
  \/ SetNumSimulations
  \/ DoEndRun

SpecPop == Init /\ [][NextPop]_vars

-----------------------------------------------------------------------------
(* One AI car of the first generation *)

\* the first generation of a trainer configured for a single offspring of
\* the track's best, whose net came out with the "accel" deviation
FirstGeneration(trackName, random) ==
  NextGeneration(
    [InitWorld EXCEPT !.settings.numSimulations =
       [globalBest |-> 0, trackBest |-> 1, trackRandom |-> 0]],
    trackName, FALSE, [pick |-> 0, z |-> "accel", place |-> random],
    StartClock).world

InitCar ==
  /\ now = StartClock
  /\ \E trackName \in Tracks, random \in PlaceRandoms :
       /\ StateIs(FirstGeneration(trackName, random))
       /\ lastOp = Op("nextGeneration", 0, trackName, FALSE, "done")
  /\ NetIdle

\* the car and its refreshes, fine time
NextCar ==
  \/ AdvanceClock({ClockUnit}, MaxClock)
  \/ DoTickAll({LongTick}, {NoKeys}, MaxCarTicks)
  \/ SettleRefresh(Outcomes)
  \/ DoPlaceOnTrack
  \/ DoEndRun

SpecCar == InitCar /\ [][NextCar]_vars

\* the car driving and crossing the lap line
NextLap ==
  \/ DoTickAll(TickSizes, {NoKeys}, MaxLapTicks)
  \/ SettleRefresh(Outcomes)

SpecLap == InitCar /\ [][NextLap]_vars

\* the car's generation and the ones after it
NextGen ==
  \/ DoTickAll({LongTick}, {NoKeys}, MaxCarTicks)
  \/ SettleRefresh(GenOutcomes)
  \/ DoEndRun
  \/ DoNextGeneration(RandomDraws)

SpecGen == InitCar /\ [][NextGen]_vars

-----------------------------------------------------------------------------
(* Inputs of the Network exploration *)

WeightVals == {0, 1}
InputVals == {Num(-2), Num(1), NaN}

SeqsUpTo(S, n) == UNION {[1..m -> S] : m \in 0..n}

Hiddens == {<<>>} \cup {<<h>> : h \in 1..MaxHid}

\* tensors of exactly the shape (input, hidden, output), every weight free
ShapedWeights(input, hidden, output) ==
  IF hidden = <<>>
  THEN {<<l>> : l \in [1..output -> [1..(input + 1) -> WeightVals]]}
  ELSE {<<l1, l2>> :
          l1 \in [1..hidden[1] -> [1..(input + 1) -> WeightVals]],
          l2 \in [1..output -> [1..(hidden[1] + 1) -> WeightVals]]}

\* tensors of any shape, ragged ones included, every weight 1
AnyShapeWeights ==
  SeqsUpTo(SeqsUpTo(SeqsUpTo({1}, MaxIn + 1), MaxOut), MaxLayers)

NetConfigs ==
  {[input |-> i, hidden |-> h, output |-> o, weights |-> w] :
     i \in 0..MaxIn, h \in Hiddens, o \in 0..MaxOut, w \in AnyShapeWeights}
  \cup
  UNION {{[input |-> i, hidden |-> h, output |-> o, weights |-> w] :
            w \in ShapedWeights(i, h, o)} :
         i \in 1..MaxIn, h \in Hiddens, o \in 1..MaxOut}

EvalInputs == SeqsUpTo(InputVals, MaxIn + 2)

-----------------------------------------------------------------------------
(* Network operations *)

InitNet ==
  /\ InitCars
  /\ netCfg \in NetConfigs
  /\ net = NoNet
  /\ netErr = "none"
  /\ evalIn = <<>>
  /\ evalOut = <<>>

\* new Network(config): validate() throws, or the object keeps config
NetConstruct ==
  /\ net = NoNet /\ netErr = "none"
  /\ LET r == Validate(netCfg)
     IN /\ netErr' = IF r = "ok" THEN "none" ELSE r
        /\ net' = IF r = "ok" THEN [config |-> netCfg] ELSE NoNet
  /\ UNCHANGED <<netCfg, evalIn, evalOut>>
  /\ UNCHANGED carVars

\* net.eval(input); eval reads only the config, so one call per constructed
\* Network covers every call
NetEval ==
  /\ net # NoNet
  /\ evalIn = <<>> /\ evalOut = <<>>
  /\ \E input \in EvalInputs :
       /\ evalIn' = input
       /\ evalOut' = Eval(net.config.weights, input, 1)
  /\ UNCHANGED <<netCfg, net, netErr>>
  /\ UNCHANGED carVars

NextNet == NetConstruct \/ NetEval

SpecNet == InitNet /\ [][NextNet]_vars

-----------------------------------------------------------------------------
(* Network.randomStep on a constructed Network *)

MaxWeight == 2

StepStdevs == {0, 1000}
StepNoises == {"zero", "first"}

\* the weights of a configuration that passed validate
WeightsOf(cfg) ==
  {cfg.weights[i][j][k] :
     <<i, j, k>> \in {<<i, j, k>> \in (1..MaxLayers) \X (1..MaxOut) \X (1..(MaxIn + 1)) :
                       /\ i <= Len(cfg.weights)
                       /\ j <= Len(cfg.weights[i])
                       /\ k <= Len(cfg.weights[i][j])}}

\* new Network(stepped): the constructor of line 99 on the stepped config
Stepped(cfg, stdev) ==
  /\ \A x \in WeightsOf(cfg) : x <= MaxWeight
  /\ netCfg' = cfg
  /\ netErr' = IF Validate(cfg) = "ok" THEN "none" ELSE Validate(cfg)
  /\ net' = IF Validate(cfg) = "ok" THEN [config |-> cfg] ELSE NoNet
  /\ lastOp' = Op("randomStep", stdev, NoTrack, FALSE, "none")

\* net = net.randomStep(stdev): the Network returned takes the place of its
\* source; lastOp.car holds stdev
NetRandomStep ==
  /\ net # NoNet
  /\ \E stdev \in StepStdevs, z \in StepNoises :
       Stepped(RandomStep(net.config, stdev, z), stdev)
  /\ UNCHANGED <<evalIn, evalOut>>
  /\ UNCHANGED <<now, heap, registry, pending, settings, nextId>>

NextStep == NetConstruct \/ NetRandomStep

SpecStep == InitNet /\ [][NextStep]_vars

\* the identity of a Network object: 0 for the one NetConstruct made
NetRef(n) == IF "ref" \in DOMAIN n THEN n.ref ELSE 0

\* StepCall writing the stepped weights into the source and returning it
StepCallInPlace(src, stdev, z) ==
  [source |-> [src EXCEPT !.config = RandomStep(src.config, stdev, z)],
   result |-> [src EXCEPT !.config = RandomStep(src.config, stdev, z)]]

\* src.randomStep(stdev), lines 98-105: the object src after the call and
\* the object returned (NoNet if its constructor throws); map builds new
\* arrays and new Network a new object
StepCall(src, stdev, z) ==
  [source |-> src,
   result |-> IF Validate(RandomStep(src.config, stdev, z)) = "ok"
              THEN [config |-> RandomStep(src.config, stdev, z),
                    ref |-> NetRef(src) + 1]
              ELSE NoNet]

\* other = net.randomStep(stdev): net stays the source, evalOut holds the
\* Network returned and lastOp.car stdev
NetStepApart ==
  /\ net # NoNet
  /\ \E stdev \in StepStdevs, z \in StepNoises :
       /\ net' = StepCall(net, stdev, z).source
       /\ evalOut' = <<StepCall(net, stdev, z).result>>
       /\ lastOp' = Op("randomStep", stdev, NoTrack, FALSE, "none")
  /\ UNCHANGED <<netCfg, netErr, evalIn>>
  /\ UNCHANGED <<now, heap, registry, pending, settings, nextId>>

NextCopy == NetConstruct \/ NetStepApart

SpecCopy == InitNet /\ [][NextCopy]_vars
-----------------------------------------------------------------------------
(* The manually driven car under ticks of any length *)

MaxDriveTicks == 12

\* dt of Car.tick: 0 (paused) and a stall of twelve seconds
HugeTick == 12000
DriveTicks == {0, HugeTick}

DriveKeys ==
  {NoKeys,
   [NoKeys EXCEPT !.up = TRUE],
   [NoKeys EXCEPT !.up = TRUE, !.left = TRUE],
   [NoKeys EXCEPT !.down = TRUE, !.right = TRUE]}

\* the manual car alone on a track: manual control switched on and no
\* simulated car configured
ManualStart(trackName) ==
  NextGeneration(
    [InitWorld EXCEPT !.settings.manualControl = TRUE,
                      !.settings.numSimulations =
                         [globalBest |-> 0, trackBest |-> 0, trackRandom |-> 0]],
    trackName, FALSE, NoDraw, StartClock).world

InitDrive ==
  /\ now = StartClock
  /\ \E trackName \in Tracks :
       /\ StateIs(ManualStart(trackName))
       /\ lastOp = Op("toggleManual", 0, trackName, FALSE, "done")
  /\ NetIdle

NextDrive ==
  \/ DoTickAll(DriveTicks, DriveKeys, MaxDriveTicks)
  \/ SettleRefresh(GenOutcomes)

SpecDrive == InitDrive /\ [][NextDrive]_vars
-----------------------------------------------------------------------------
(* The car of the first generation next to a car that was never placed *)

\* new Car(name) under a name not yet registered: registered, without a net
\* and without a track
DoConstruct(names) ==
  /\ \E name \in names :
       /\ RegIndex(registry, name) = 0
       /\ Install(Construct(World, name, NoNet))
       /\ lastOp' = Op("construct", nextId, NoTrack, FALSE, "none")
  /\ UNCHANGED now
  /\ UNCHANGED netVars

NextEnd ==
  \/ DoTickAll({LongTick}, {NoKeys}, MaxCarTicks)
  \/ SettleRefresh(Outcomes)
  \/ DoPlaceOnTrack
  \/ DoEndRun
  \/ DoConstruct({AiName("AI.globalBest", 0)})

SpecEnd == InitCar /\ [][NextEnd]_vars
-----------------------------------------------------------------------------
(* One car, simulated or manually driven, lapping the track *)

MaxWinTicks == 9

\* the footprint on the road, off or on the lap line
LapOutcomes == {o \in Outcomes : o.ok /\ ~o.offTrack}

\* the driver holds ArrowUp
WinKeys == {[NoKeys EXCEPT !.up = TRUE]}

InitWin ==
  /\ now = StartClock
  /\ \E trackName \in {"Oval"} :
       \/ /\ StateIs(FirstGeneration(trackName, 500))
          /\ lastOp = Op("nextGeneration", 0, trackName, FALSE, "done")
       \/ /\ StateIs(ManualStart(trackName))
          /\ lastOp = Op("toggleManual", 0, trackName, FALSE, "done")
  /\ NetIdle

NextWin ==
  \/ DoTickAll({ShortTick}, WinKeys, MaxWinTicks)
  \/ SettleRefresh(LapOutcomes)

SpecWin == InitWin /\ [][NextWin]_vars
-----------------------------------------------------------------------------
(* One car, simulated or manually driven, past the grace period *)

MaxEvictTicks == 5
MaxEvictClock == 420

\* a pause of 21 s of wall-clock time between two ticks
EvictWait == 21000

NextEvict ==
  \/ AdvanceClock({EvictWait}, MaxEvictClock)
  \/ DoTickAll({LongTick}, WinKeys, MaxEvictTicks)
  \/ SettleRefresh(LapOutcomes)

SpecEvict == InitWin /\ [][NextEvict]_vars
-----------------------------------------------------------------------------
(* A simulated car whose net steers hard left, turning back on its path *)

MaxTurnTicks == 6

\* the first generation's car with the "turn" deviation: full throttle and
\* full left lock at every refresh
TurnStart ==
  NextGeneration(
    [InitWorld EXCEPT !.settings.numSimulations =
       [globalBest |-> 0, trackBest |-> 1, trackRandom |-> 0]],
    "Basic", FALSE, [pick |-> 0, z |-> "turn", place |-> 500],
    StartClock).world

InitTurn ==
  /\ now = StartClock
  /\ StateIs(TurnStart)
  /\ lastOp = Op("nextGeneration", 0, "Basic", FALSE, "done")
  /\ NetIdle

NextTurn ==
  \/ DoTickAll(TickSizes, {NoKeys}, MaxTurnTicks)
  \/ SettleRefresh(LapOutcomes)

SpecTurn == InitTurn /\ [][NextTurn]_vars

\* the car and its refreshes, with the refreshes that fail
NextFail ==
  \/ AdvanceClock({ClockUnit}, MaxClock)
  \/ DoTickAll({LongTick}, {NoKeys}, MaxCarTicks)
  \/ SettleRefresh(FailOutcomes)
  \/ DoPlaceOnTrack

SpecFail == InitCar /\ [][NextFail]_vars

-----------------------------------------------------------------------------
(* Settings.ts: the clock *)

\* unsettled refreshes of one car under the clock: one of each sub-step of a
\* call after a stall and one of the next call
MaxClockPending == 4

\* minUpdateSecs, maxUpdateSecs and maxTickSecs, in ms
MinUpdateSecs == 10
MaxUpdateSecs == 250
MaxTickSecs == 100

\* Settings.tick, line 223, with the bound of line 210 in place of
\* maxTickSecs
SubStepUpToUpdate(dt) == Clamp(dt, MinUpdateSecs, MaxUpdateSecs)

\* Settings.tick, line 223: the sub-step taken of the dt left
SubStep(dt) == Clamp(dt, MinUpdateSecs, MaxTickSecs)

\* Settings.tick, lines 222-229: the sub-steps of the loop, in order
RECURSIVE SubSteps(_)
SubSteps(dt) ==
  IF dt > 0 THEN <<SubStep(dt)>> \o SubSteps(dt - SubStep(dt)) ELSE <<>>

\* Settings.tick, lines 222-229: Car.tickAll on each sub-step from the i-th
\* on, one after the other (time dilation 1, not paused)
RECURSIVE Dispatch(_, _, _, _)
Dispatch(w, steps, i, t) ==
  IF i > Len(steps) THEN w
  ELSE Dispatch(TickAll(w, steps[i], t, NoKeys, NoDraw).world, steps, i + 1, t)

\* saveFrequencySecs in ms, rendersPerSec
SaveFrequencySecs == 10000
RendersPerSec == 30

\* SaveDue without the test of lastSaved
SaveDueSinceLoad(s) == s.lastTick - s.lastLoaded >= SaveFrequencySecs

\* Settings.tick, lines 248-252: the save callback is due
SaveDue(s) ==
  /\ s.lastTick - s.lastSaved >= SaveFrequencySecs
  /\ s.lastTick - s.lastLoaded >= SaveFrequencySecs

\* Settings.tick, lines 257-260: the render callback is due
RenderDue(s) == (s.lastTick - s.lastRender) * RendersPerSec >= 1000

\* Settings.tick, lines 248-255: onSave is Settings.save, whose own call of
\* tick returns at line 212 and whose save() stamps lastSaved
Saved(s) ==
  IF SaveDue(s)
  THEN [s EXCEPT !.lastSaved = s.lastTick, !.fired.save = s.lastTick]
  ELSE s

\* Settings.tick, lines 257-266
Rendered(s) ==
  IF RenderDue(s)
  THEN [s EXCEPT !.lastRender = s.lastTick, !.fired.render = s.lastTick]
  ELSE s

\* what a call of Settings.tick did, in order: its sub-steps, then the
\* callbacks that were due on the settings s the sub-steps left
Events(steps, s) ==
  [i \in 1..Len(steps) |-> "tickAll"]
    \o (IF SaveDue(s) THEN <<"save">> ELSE <<>>)
    \o (IF RenderDue(Saved(s)) THEN <<"render">> ELSE <<>>)

\* Settings.tick, lines 231-268, on the world w the sub-steps left
Callbacks(w, steps) ==
  [world |-> [w EXCEPT !.settings = Rendered(Saved(@))],
   steps |-> steps,
   outcome |-> Events(steps, w.settings)]

\* Settings.tick, lines 211-268, once dt is known.  The timer's calls
\* (source "tick") carry the callbacks; the call of Settings.save (source
\* "save") carries none, and save() stamps lastSaved after it.
Clocked(w, t, source, dt) ==
  IF source = "tick"
  THEN IF dt < MinUpdateSecs /\ w.settings.lastTick # NoTick
       THEN [world |-> w, steps |-> <<>>, outcome |-> <<"skipped">>]
       ELSE Callbacks(Dispatch([w EXCEPT !.settings.lastTick = t],
                               SubSteps(dt), 1, t),
                      SubSteps(dt))
  ELSE IF dt < MinUpdateSecs /\ w.settings.lastTick # NoTick
  THEN [world |-> [w EXCEPT !.settings.lastSaved = t],
        steps |-> <<>>, outcome |-> <<"skipped">>]
  ELSE [world |-> [w EXCEPT !.settings.lastTick = t,
                            !.settings.lastSaved = t],
        steps |-> <<>>, outcome |-> <<>>]

\* Settings.tick(now, source), lines 202-268, and for the source "save"
\* Settings.save, lines 125-129 and 197-200
SettingsTick(w, t, source) ==
  Clocked(w, t, source,
          Clamp(t - (IF w.settings.lastTick = NoTick THEN t
                     ELSE w.settings.lastTick),
                0, MaxUpdateSecs))

\* the result r of a Settings.tick becomes the state; lastOp.car holds the
\* sub-steps it dispatched to Car.tickAll
CommitClock(r, source) ==
  /\ \A id \in DOMAIN r.world.heap :
       Cardinality(PendingOf(r.world.pending, id)) <= MaxClockPending
  /\ heap' = Collect(r.world.heap, r.world.registry, r.world.pending)
  /\ registry' = r.world.registry
  /\ pending' = r.world.pending
  /\ settings' = r.world.settings
  /\ nextId' = r.world.nextId
  /\ lastOp' = Op("settingsTick", r.steps, source, FALSE, r.outcome)

\* the interval timer or a save calls Settings.tick after a wall-clock gap.
\* A gap too short for a render is explored only right after a call that
\* updated.
DoSettingsTick(gaps, sources, maxClock) ==
  /\ \E gap \in gaps, source \in sources :
       /\ gap * RendersPerSec < 1000 => settings.lastTick = now
       /\ now + gap <= StartClock + maxClock * ClockUnit
       /\ now' = now + gap
       /\ CommitClock(SettingsTick(World, now + gap, source), source)
  /\ UNCHANGED netVars

\* the same calls, a gap of less than a second being explored only right
\* after a call that dispatched a whole update window
DoClockCall(gaps, sources, maxClock) ==
  /\ \E gap \in gaps, source \in sources :
       /\ gap < 1000
            => lastOp.op = "settingsTick" /\ Len(lastOp.car) = 3
       /\ now + gap <= StartClock + maxClock * ClockUnit
       /\ now' = now + gap
       /\ CommitClock(SettingsTick(World, now + gap, source), source)
  /\ UNCHANGED netVars

\* wall-clock gaps between calls, ms: below minUpdateSecs, a sub-step and a
\* remainder below minUpdateSecs, beyond maxUpdateSecs
ClockGaps == {5, 105, 300}
ClockSources == {"tick", "save"}
MaxClockTime == 9

\* the refreshes that show the car on the road, off the lap line
RoadOutcomes == {o \in Outcomes : o.ok /\ ~o.lapping /\ ~o.offTrack}

NextClock ==
  \/ DoSettingsTick(ClockGaps, ClockSources, MaxClockTime)
  \/ SettleRefresh(RoadOutcomes)

SpecClock == InitCar /\ [][NextClock]_vars

\* wall-clock gaps between calls, ms: too short for a render, long enough
\* for one, half and all of the save period
SaveGaps == {20, 40, 5000, 10000}
MaxSaveTime == 22

NextSave ==
  \/ DoClockCall(SaveGaps, ClockSources, MaxSaveTime * (1000 \div ClockUnit))
  \/ SettleRefresh(RoadOutcomes)

\* the clock over the manual car at rest
SpecSave == InitDrive /\ [][NextSave]_vars

-----------------------------------------------------------------------------
(* Sensor: one ray read from the composed mask *)

\* the longest ray explored, in pixels
MaxRange == 5

\* what the mask shows along a ray: samples[r + 1] tells whether the pixel
\* at distance r is tagged OffTrack, for r = 0 .. MaxRange
Rays == [1..(MaxRange + 1) -> BOOLEAN]

\* Sensor.read, lines 96-105: the loop from step r on, dist being the last
\* clear distance so far
RECURSIVE Scan(_, _, _, _)
Scan(samples, range, r, dist) ==
  IF r >= range THEN dist
  ELSE IF samples[r + 1] THEN dist
  ELSE Scan(samples, range, r + 1, r)

\* Sensor.read, lines 85-108, in thousandths
SensorRead(samples, range) ==
  Clamp((Scan(samples, range, 0, 0) * 1000) \div range, 0, 1000)

\* sensor.read(...) of a sensor of some range over some ray
DoSensorRead ==
  /\ \E range \in 1..MaxRange, samples \in Rays :
       lastOp' = Op("read", [range |-> range, samples |-> samples], NoTrack,
                    FALSE, SensorRead(samples, range))
  /\ UNCHANGED <<now, heap, registry, pending, settings, nextId>>
  /\ UNCHANGED netVars

NextRay == DoSensorRead

SpecRay == Init /\ [][NextRay]_vars

-----------------------------------------------------------------------------
(* The champions over generations with and without a manual driver *)

\* the draws of a generation whose cars start on the middle of the road
SotaDraws == {d \in RandomDraws : d.pick = 0 /\ d.place = 500}

NextSota ==
  \/ DoTickAll({LongTick}, {NoKeys}, MaxCarTicks)
  \/ SettleRefresh(RoadOutcomes)
  \/ DoEndRun
  \/ DoNextGeneration(SotaDraws)
  \/ ToggleManualControl({NoDraw})

SpecSota == InitCar /\ [][NextSota]_vars

\* the generations of a trainer whose numbers of offspring change
NextBreed ==
  \/ SetNumSimulations
  \/ DoNextGeneration(SotaDraws)
  \/ DoEndRun

SpecBreed == InitCar /\ [][NextBreed]_vars

-----------------------------------------------------------------------------
(* Auto-advance: tickAll starting the next generation by itself *)

\* clock advances, in units of ClockUnit
MaxAutoClock == 60

\* half a second of wall-clock time between two ticks
AutoWait == 500

\* the first generation of one offspring of the track's best, with or
\* without the manual driver; with the driver the simulated cars are then
\* switched off (numSimulations 0), the car of the first generation staying
AutoStart(manual) ==
  LET first == NextGeneration(
                 [InitWorld EXCEPT !.settings.manualControl = manual,
                                   !.settings.numSimulations =
                                      [globalBest |-> 0, trackBest |-> 1,
                                       trackRandom |-> 0]],
                 "Basic", FALSE, NoDraw, StartClock).world
  IN IF manual
     THEN [first EXCEPT !.settings.numSimulations =
             [globalBest |-> 0, trackBest |-> 0, trackRandom |-> 0]]
     ELSE first

InitAuto ==
  /\ now = StartClock
  /\ \E manual \in BOOLEAN : StateIs(AutoStart(manual))
  /\ lastOp = Op("nextGeneration", 0, "Basic", FALSE, "done")
  /\ NetIdle

\* the auto-advance button: settings.set({autoAdvance: !settings.autoAdvance})
ToggleAutoAdvance ==
  /\ settings' = [settings EXCEPT !.autoAdvance = ~@]
  /\ lastOp' = Op("toggleAuto", 0, NoTrack, FALSE, "none")
  /\ UNCHANGED <<now, heap, registry, pending, nextId>>
  /\ UNCHANGED netVars

NextAuto ==
  \/ AdvanceClock({AutoWait}, MaxAutoClock)
  \/ DoTickAll({LongTick}, {NoKeys}, MaxCarTicks)
  \/ DoEndRun
  \/ ToggleAutoAdvance

SpecAuto == InitAuto /\ [][NextAuto]_vars
-----------------------------------------------------------------------------
(* The clock while the simulation is paused *)

\* Settings.tick, line 227: the dt handed to Car.tickAll for a sub-step
\* (time dilation 1)
TickLength(paused, tick) == IF paused THEN 0 ELSE tick

\* the dt of the running clock after a stall, and of the paused clock
PauseTicks == {TickLength(paused, HugeTick) : paused \in BOOLEAN}

NextPause ==
  \/ AdvanceClock({EvictWait}, MaxEvictClock)
  \/ DoTickAll(PauseTicks, {NoKeys}, MaxDriveTicks)
  \/ SettleRefresh(LapOutcomes)
  \/ ToggleAutoAdvance

SpecPause == InitCar /\ [][NextPause]_vars
-----------------------------------------------------------------------------
(* One simulated car lapping the Basic track with slow refreshes *)

\* clock advances, in units of ClockUnit
MaxLapsClock == 2

InitLaps ==
  /\ now = StartClock
  /\ StateIs(FirstGeneration("Basic", 500))
  /\ lastOp = Op("nextGeneration", 0, "Basic", FALSE, "done")
  /\ NetIdle

NextLaps ==
  \/ AdvanceClock({SensorInterval}, MaxLapsClock)
  \/ DoTickAll({LongTick}, {NoKeys}, MaxWinTicks)
  \/ SettleRefresh(LapOutcomes)

SpecLaps == InitLaps /\ [][NextLaps]_vars
-----------------------------------------------------------------------------
(* Sensor: the colours of the mask and Sensor.check *)

\* module Sensor: available 0x000000, offTrack 0x800000, lapLine 0x008000,
\* vehicle 0x7f7f7f, radar 0x000080
SensorAvailable == 0
SensorOffTrack == 8388608
SensorLapLine == 32768
SensorVehicle == 8355711
SensorRadar == 128

\* the bitwise & and | of JavaScript on non-negative integers
RECURSIVE BitAnd(_, _)
BitAnd(a, b) ==
  IF a = 0 \/ b = 0 THEN 0
  ELSE (a % 2) * (b % 2) + 2 * BitAnd(a \div 2, b \div 2)

RECURSIVE BitOr(_, _)
BitOr(a, b) ==
  IF a = 0 THEN b
  ELSE IF b = 0 THEN a
  ELSE (IF a % 2 = 1 \/ b % 2 = 1 THEN 1 ELSE 0)
         + 2 * BitOr(a \div 2, b \div 2)

\* toCanvasColor: RGB to the BGR of canvas data
ToCanvasColor(col) ==
  BitOr(BitOr(BitAnd(col, 16711680) \div 65536, BitAnd(col, 255) * 65536),
        BitAnd(col, 65280))

\* sensorColors.reduce((acc, color) => acc | color, 0)
RECURSIVE OrAll(_, _)
OrAll(colors, n) == IF n = 0 THEN 0 ELSE BitOr(OrAll(colors, n - 1), colors[n])

\* Sensor.check with a match on any bit of the colour
SensorCheckAnyBit(argb, colors) ==
  BitAnd(argb.bgr, ToCanvasColor(OrAll(colors, Len(colors)))) # 0

\* Sensor.check(argb, ...sensorColors).  A canvas datum is kept as its alpha
\* byte and its low 24 bits: the colour it is and-ed with has no bit above
\* bit 23, so the alpha byte takes no part in the result.
SensorCheck(argb, colors) ==
  BitAnd(argb.bgr, ToCanvasColor(OrAll(colors, Len(colors))))
    = ToCanvasColor(OrAll(colors, Len(colors)))

\* one channel (shift 1, 256 or 65536) of the composition "lighter": the sum
\* of the two colours, at most 255
Channel(col, shift) == (col \div shift) % 256

LighterChannel(dst, src, shift) ==
  shift * (IF Channel(dst, shift) + Channel(src, shift) > 255 THEN 255
           ELSE Channel(dst, shift) + Channel(src, shift))

Lighter(dst, src) ==
  LighterChannel(dst, src, 1) + LighterChannel(dst, src, 256)
    + LighterChannel(dst, src, 65536)

\* the tags of the track mask
MaskTags == {SensorAvailable, SensorOffTrack, SensorLapLine}

\* the canvas datum (opaque, ABGR) of a mask pixel of some tag, with or
\* without the footprint of the car drawn over it
MaskPixel(tag, covered) ==
  [alpha |-> 255,
   bgr |-> ToCanvasColor(IF covered THEN Lighter(tag, SensorVehicle) ELSE tag)]

\* the colour lists a call of Sensor.check is given: one or two colours
CheckColors ==
  LET all == {SensorOffTrack, SensorLapLine, SensorVehicle, SensorRadar}
  IN {<<a>> : a \in all} \cup {<<a, b>> : a \in all, b \in all}

\* Sensor.check on a pixel of the composed mask; lastOp.force is the result
DoSensorCheck ==
  /\ \E tag \in MaskTags, covered \in BOOLEAN, colors \in CheckColors :
       lastOp' = Op("check", [tag |-> tag, covered |-> covered, colors |-> colors],
                    NoTrack, SensorCheck(MaskPixel(tag, covered), colors), "none")
  /\ UNCHANGED <<now, heap, registry, pending, settings, nextId>>
  /\ UNCHANGED netVars

NextMask == DoSensorCheck

SpecMask == Init /\ [][NextMask]_vars
-----------------------------------------------------------------------------
(* Claims about the Network *)

RECURSIVE SumTo(_, _, _)
SumTo(row, input, k) ==
  IF k = 0 THEN 0 ELSE input[k].v * row[k] + SumTo(row, input, k - 1)

\* the layer as the data model describes it: the bias is the last entry of
\* the row and every input element is weighted
RefLayer(layer, input) ==
  [j \in 1..Len(layer) |->
     Num(Clamp(layer[j][Len(input) + 1] + SumTo(layer[j], input, Len(input)),
               -1, 1))]

RECURSIVE RefEvalFrom(_, _, _)
RefEvalFrom(weights, input, i) ==
  IF i > Len(weights) THEN input
  ELSE RefEvalFrom(weights, RefLayer(weights[i], input), i + 1)

EvalDone == net # NoNet /\ evalOut # <<>>

\* C8: for a valid Network and an input vector of finite numbers whose length
\* is the input size, eval returns, layer by layer, clamp(bias + sum over ALL
\* input elements of input[k] * weight[k], -1, 1) with the bias taken from
\* the last entry of the row.
C8_EvalWeightsEveryInput ==
  (EvalDone /\ Len(evalIn) = net.config.input
            /\ \A k \in 1..Len(evalIn) : IsNum(evalIn[k]))
    => evalOut = RefEvalFrom(net.config.weights, evalIn, 1)

\* C9: for a valid Network and any input vector, eval returns exactly
\* `output` elements and each of them is a number in [-1, 1].
C9_EvalOutputInRange ==
  EvalDone =>
    /\ Len(evalOut) = net.config.output
    /\ \A j \in 1..Len(evalOut) :
         IsNum(evalOut[j]) /\ evalOut[j].v >= -1 /\ evalOut[j].v <= 1

\* the shape invariant of the data model, stated without the order of checks
ShapeMatches(cfg) ==
  /\ Len(cfg.weights) = Len(cfg.hidden) + 1
  /\ \A i \in 1..Len(cfg.weights) :
       /\ i <= Len(cfg.hidden) + 1
       /\ Len(cfg.weights[i]) = LayerOut(cfg, i)
       /\ \A j \in 1..Len(cfg.weights[i]) :
            Len(cfg.weights[i][j]) = LayerIn(cfg, i) + 1

Constructed == net # NoNet \/ netErr # "none"

\* C10: the constructor throws, leaving no Network, exactly when input < 1,
\* output < 1 or the weight tensor's shape disagrees with (input, hidden,
\* output); an accepted configuration is kept as given.
C10_ConstructorRejectsShapeMismatch ==
  Constructed =>
    /\ (netErr # "none") <=>
         ~(netCfg.input >= 1 /\ netCfg.output >= 1 /\ ShapeMatches(netCfg))
    /\ (netErr # "none") => net = NoNet
    /\ (netErr = "none") => net.config = netCfg

\* a configuration whose only fault is one neuron row of the wrong length was
\* rejected
C10_Witness ==
  /\ netErr = "Invalid col count"
  /\ net = NoNet
  /\ netCfg.input >= 1 /\ netCfg.output >= 1
  /\ Len(netCfg.weights) = Len(netCfg.hidden) + 1

-----------------------------------------------------------------------------
(* Claims about the cars and the trainer *)

\* the final scoring state of a car
ScoringState(c) ==
  [laps |-> c.laps, odometer |-> c.odometer,
   startTime |-> c.startTime, endTime |-> c.endTime]

\* the objects a step keeps
Kept == DOMAIN heap \cap DOMAIN heap'

\* the cars on which the step starts a perception refresh
Started(id) ==
  Cardinality(PendingOf(pending', id)) > Cardinality(PendingOf(pending, id))

\* C1: once endRun has run on a car, no step that is not a placeOnTrack of
\* that car (a tick, the resolution of a refresh that was in flight, a
\* nextGeneration) changes its laps, odometer, startTime or endTime.
C1_EndedStateFrozen ==
  [][\A id \in Kept :
       (heap[id].collided /\ heap'[id].epoch = heap[id].epoch
          /\ lastOp'.op \in {"tickAll", "settle", "nextGeneration"})
         => ScoringState(heap'[id]) = ScoringState(heap[id])]_vars

\* the state of a run that a refresh of an earlier run must leave alone
RunState(c) ==
  [laps |-> c.laps, inCrossing |-> c.inCrossing,
   crossingDistance |-> c.crossingDistance, startTime |-> c.startTime,
   endTime |-> c.endTime, collided |-> c.collided,
   sensorReadings |-> c.sensorReadings,
   acceleration |-> c.acceleration, steering |-> c.steering]

Sota(s) == [sotaScore |-> s.sotaScore, sotaNet |-> s.sotaNet]

\* C2: a refresh started before its car was placed again changes, when it
\* resolves, neither the car's lap, collision, sensor-reading and control
\* state nor the trainer's sotaScore and sotaNet.
C2_StaleRefreshDiscarded ==
  [][(lastOp'.op = "settle" /\ lastOp'.outcome = "stale"
        /\ lastOp'.car \in Kept)
       => /\ RunState(heap'[lastOp'.car]) = RunState(heap[lastOp'.car])
          /\ Sota(settings') = Sota(settings)]_vars

\* a nextGeneration(track, false) that found an AI car racing on track
ReturnedEarly(op) ==
  /\ op.op \in {"nextGeneration", "toggleManual"}
  /\ ~op.force
  /\ op.outcome = "early"

\* the registry without the manual car
AiEntries(reg) == SelectSeq(reg, LAMBDA e : e.name # Manual)

\* C3 as stated: a nextGeneration(track, false) that finds an AI car racing
\* on track ends, creates, removes and re-places no car and leaves
\* numIterations, sotaScore and sotaNet alone.
C3_EarlyReturnNoOp ==
  [][ReturnedEarly(lastOp')
       => /\ registry' = registry
          /\ heap' = heap
          /\ settings'.numIterations = settings.numIterations
          /\ Sota(settings') = Sota(settings)]_vars

\* C3 amended: a nextGeneration(track, false) that finds an AI car racing
\* on track ends, creates, removes and re-places no AI car and leaves
\* numIterations, sotaScore and sotaNet alone; only the car named 'Manual'
\* may have been created, replaced or removed by it.
C3_EarlyReturnKeepsAiCars ==
  [][ReturnedEarly(lastOp')
       => /\ AiEntries(registry') = AiEntries(registry)
          /\ \A i \in 1..Len(AiEntries(registry)) :
               heap'[AiEntries(registry)[i].id] = heap[AiEntries(registry)[i].id]
          /\ settings'.numIterations = settings.numIterations
          /\ Sota(settings') = Sota(settings)]_vars

\* an early return in a registry with a racing manual car and a racing AI car
C3_Witness ==
  /\ ReturnedEarly(lastOp)
  /\ StillRacing(World, lastOp.track)
  /\ RegIndex(registry, Manual) # 0
  /\ ~heap[registry[RegIndex(registry, Manual)].id].collided
  /\ heap[registry[RegIndex(registry, Manual)].id].track = lastOp.track

\* C4: after a nextGeneration call that bred a generation, the registry holds
\* numSimulations.globalBest + trackBest + trackRandom cars, and the manual
\* car if there is one.
C4_PopulationSize ==
  (lastOp.op \in {"nextGeneration", "toggleManual"} /\ lastOp.outcome = "done")
    => Len(registry) =
         settings.numSimulations.globalBest + settings.numSimulations.trackBest
         + settings.numSimulations.trackRandom
         + (IF RegIndex(registry, Manual) # 0 THEN 1 ELSE 0)

\* C5: no step lowers or removes the persisted best score of a track.
C5_SotaScoreMonotonic ==
  [][\A tr \in Tracks :
       HasScore(settings.sotaScore[tr])
         => /\ HasScore(settings'.sotaScore[tr])
            /\ settings'.sotaScore[tr].score >= settings.sotaScore[tr].score]_vars

\* an ended car of a later generation that scored below the persisted best
\* of its track
C5_Witness ==
  /\ settings.numIterations > 1
  /\ \E e \in 1..Len(registry) :
       LET c == heap[registry[e].id]
       IN /\ c.collided
          /\ c.endTime # 0
          /\ HasScore(settings.sotaScore[c.track])
          /\ 0 < Score(c, now).score
          /\ Score(c, now).score < settings.sotaScore[c.track].score

\* C6: a step counts at most one lap of a car, and counts it only when the
\* odometer has advanced by carWidth + carHeight + roadThickness since the
\* crossing before.
C6_LapNeedsFullLength ==
  [][\A id \in Kept :
       heap'[id].laps > heap[id].laps
         => /\ heap'[id].laps = heap[id].laps + 1
            /\ heap[id].odometer - heap[id].lapOdometer >= LapLength(heap[id])]_vars

-----------------------------------------------------------------------------
(* Claims about randomStep *)

\* C11: randomStep(0) returns a Network whose every weight and bias equals
\* the corresponding weight of its source, with the same input, hidden and
\* output sizes.
C11_RandomStepZeroCopies ==
  [][(lastOp'.op = "randomStep" /\ lastOp'.car = 0)
       => /\ net' # NoNet
          /\ net'.config.input = net.config.input
          /\ net'.config.hidden = net.config.hidden
          /\ net'.config.output = net.config.output
          /\ net'.config.weights = net.config.weights]_vars

\* randomStep(0) returned a copy of a Network with a hidden layer that an
\* earlier randomStep had moved away from the configuration's weights 0..1
C11_Witness ==
  /\ lastOp.op = "randomStep" /\ lastOp.car = 0
  /\ net # NoNet
  /\ Len(net.config.hidden) = 1
  /\ net.config.weights[1][1][1] = 2
-----------------------------------------------------------------------------
(* Claims about tick *)

\* C12: for every dt >= 0 and every prior car state, after tick(dt) the
\* car's speed lies in [0, maxSpeed] and its steering and acceleration inputs
\* both lie in [-1, 1].
C12_TickKeepsRanges ==
  lastOp.op = "tickAll" =>
    \A id \in DOMAIN heap :
       /\ heap[id].speed >= 0 /\ heap[id].speed <= MaxSpeed * 1000
       /\ heap[id].steering >= -1000 /\ heap[id].steering <= 1000
       /\ heap[id].acceleration >= -1000 /\ heap[id].acceleration <= 1000

\* the single waypoint placeOnTrack seeds behind the starting point
SeedWaypoint(trackName) ==
  [x |-> (Track(trackName).startingPoint.x
            - Track(trackName).startingDirection.x
                * (Max2(Max2(CarWidth, CarHeight), Track(trackName).roadThickness) + 1))
         * 1000,
   y |-> (Track(trackName).startingPoint.y
            - Track(trackName).startingDirection.y
                * (Max2(Max2(CarWidth, CarHeight), Track(trackName).roadThickness) + 1))
         * 1000]

\* C13: placeOnTrack(track) resets all of the car's runtime and scoring state
\* to initial values regardless of its previous state: speed, steering,
\* acceleration, odometer, laps, crossing flag and crossing distance, start
\* and end timestamps, collided flag, waypoint buffer (the single seed
\* waypoint), last sensor readings, pending-scan flag, and the accumulated
\* tick time.
C13_PlaceOnTrackResetsAll ==
  (lastOp.op = "placeOnTrack" /\ lastOp.car \in DOMAIN heap) =>
    /\ heap[lastOp.car].track = lastOp.track
    /\ heap[lastOp.car].speed = 0
    /\ heap[lastOp.car].steering = 0
    /\ heap[lastOp.car].acceleration = 0
    /\ heap[lastOp.car].odometer = 0
    /\ heap[lastOp.car].laps = 0
    /\ ~heap[lastOp.car].inCrossing
    /\ heap[lastOp.car].crossingDistance = 0
    /\ heap[lastOp.car].startTime = 0
    /\ heap[lastOp.car].endTime = 0
    /\ ~heap[lastOp.car].collided
    /\ heap[lastOp.car].pastTracking = <<SeedWaypoint(lastOp.track)>>
    /\ heap[lastOp.car].sensorReadings = NewCar(Manual).sensorReadings
    /\ heap[lastOp.car].sensorsReady
    /\ heap[lastOp.car].totalTicks = 0

\* the fields the physics of tick writes
Motion(c) ==
  <<c.position, c.angle, c.speed, c.steering, c.acceleration, c.odometer,
    c.totalTicks, c.pastTracking>>

\* C14: Ended is terminal: once a car's collided flag is set by endRun, no
\* tick, perception-refresh resolution or repeated endRun clears it; the car
\* is Racing again only after a fresh placeOnTrack, and tick performs no
\* physics on an Ended or Unplaced car.
C14_EndedIsTerminal ==
  [][\A id \in Kept :
       /\ (heap[id].collided /\ ~heap'[id].collided)
            => /\ lastOp'.op = "placeOnTrack" /\ lastOp'.car = id
               /\ heap'[id].epoch = heap[id].epoch + 1
       /\ (lastOp'.op = "tickAll"
             /\ (heap[id].collided \/ heap[id].track = NoTrack))
            => /\ Motion(heap'[id]) = Motion(heap[id])
               /\ heap'[id].collided = heap[id].collided
               /\ heap'[id].track = heap[id].track
               /\ Cardinality(PendingOf(pending', id))
                    = Cardinality(PendingOf(pending, id))]_vars

\* a tick has run over an Ended car that drove before its run ended and over
\* a car that was never placed
C14_Witness ==
  /\ lastOp.op = "tickAll"
  /\ \E id \in DOMAIN heap :
       heap[id].collided /\ heap[id].endTime > 0 /\ heap[id].totalTicks > 0
  /\ \E id \in DOMAIN heap : heap[id].track = NoTrack

\* what a perception refresh writes when it goes on to read the sensors
Perception(c) == <<c.sensorReadings, c.acceleration, c.steering>>

\* C15: a Racing car whose footprint lies over OffTrack pixels becomes
\* collided exactly when the perception refresh that samples that footprint
\* resolves, not before: the tick that starts the refresh leaves the car
\* Racing, and the resolving refresh ends the run without reading sensors or
\* evaluating the network.
C15_OffTrackEndsOnRefresh ==
  [][\A id \in Kept :
       /\ Started(id) => ~heap'[id].collided
       /\ (lastOp'.op = "settle" /\ lastOp'.car = id /\ lastOp'.force)
            => /\ heap'[id].collided
               /\ heap'[id].endTime > 0
               /\ Perception(heap'[id]) = Perception(heap[id])]_vars

\* the refresh of a Racing car that had driven and held readings of an
\* earlier refresh resolved over off-track pixels
C15_Witness ==
  /\ lastOp.op = "settle" /\ lastOp.force /\ lastOp.outcome = "fresh"
  /\ lastOp.car \in DOMAIN heap
  /\ heap[lastOp.car].collided
  /\ heap[lastOp.car].totalTicks > LongTick
  /\ heap[lastOp.car].sensorReadings # <<>>

\* C16: any Racing car whose lap count reaches 3 is Ended, through endRun,
\* no later than its next tick, and does not move on that tick.
C16_ThreeLapsEndTheRun ==
  [][\A id \in Kept :
       (lastOp'.op = "tickAll" /\ ~heap[id].collided
          /\ heap[id].track # NoTrack /\ heap[id].laps >= WinLaps)
         => /\ heap'[id].collided
            /\ heap'[id].endTime > 0
            /\ Motion(heap'[id]) = Motion(heap[id])]_vars

\* the rule of the claim: the grace period is over and the score is <= 0 or
\* <= elapsed time / 2 (score is kept times ScoreScale, time in ms)
Evictable(c, t) ==
  /\ c.totalTicks > GraceTicks * 1000
  /\ \/ Score(c, t).score <= 0
     \/ 2 * Score(c, t).score <= Max2(CarWidth, CarHeight) * Score(c, t).time

\* the car did the physics of the tick of length lastOp'.car
Drove(id) == heap'[id].totalTicks = heap[id].totalTicks + lastOp'.car

\* C17: stuck/too-slow eviction applies to AI cars only and only after the
\* grace period: an AI car is ended by this rule at the start of a tick iff
\* its accumulated tick time exceeds 3 and its score is <= 0 or <= elapsed
\* time / 2; during the grace period no AI car is evicted by it, and the
\* manually controlled car never is.
C17_EvictionAfterGrace ==
  [][\A id \in Kept :
       (lastOp'.op = "tickAll" /\ ~heap[id].collided /\ heap[id].track # NoTrack)
         => /\ (heap[id].name # Manual /\ Evictable(heap[id], now))
                 => /\ heap'[id].collided
                    /\ Motion(heap'[id]) = Motion(heap[id])
            /\ (heap[id].name # Manual /\ ~Evictable(heap[id], now)
                  /\ heap[id].laps < WinLaps)
                 => Drove(id)
            /\ heap[id].name = Manual => Drove(id)]_vars

\* a simulated car was evicted as too slow: its timer had started, its score
\* was positive and at most half the elapsed time
C17_Witness ==
  /\ lastOp.op = "tickAll"
  /\ \E id \in DOMAIN heap :
       /\ heap[id].name # Manual
       /\ heap[id].collided
       /\ heap[id].startTime > 0
       /\ heap[id].endTime - heap[id].startTime >= EvictWait
       /\ heap[id].totalTicks > GraceTicks * 1000

\* the stored waypoint i of car c lies nearer to position p than the
\* tracking radius
Near(c, i, p) == CompareDist(c.pastTracking[i], p, TrackingRadius(c)) < 0

\* the waypoints of car c after the insertion of position p
Inserted(c, p) ==
  IF Len(c.pastTracking) >= 3
  THEN <<p>> \o SubSeq(c.pastTracking, 1, 2)
  ELSE <<p>> \o c.pastTracking

\* C18: backtrack guard: on a tick in which a Racing car moves and stays on
\* the canvas, a waypoint is inserted only when the new position is farther
\* than trackingRadius = max(carWidth, carHeight, roadThickness) from every
\* stored waypoint (the new waypoint is the position, at most three are
\* kept), and the run ends as collided exactly when the position is nearer
\* than trackingRadius to some waypoint other than the most recently
\* inserted one; nearness to the most recent waypoint alone never ends it.
C18_BacktrackGuard ==
  [][\A id \in Kept :
       (/\ lastOp'.op = "tickAll"
        /\ ~heap[id].collided
        /\ heap[id].track # NoTrack
        /\ heap'[id].epoch = heap[id].epoch
        /\ Drove(id)
        /\ ~OutOfBounds(heap'[id]))
         => /\ (heap'[id].pastTracking # heap[id].pastTracking)
                 => /\ \A i \in 1..Len(heap[id].pastTracking) :
                         CompareDist(heap[id].pastTracking[i],
                                     heap'[id].position,
                                     TrackingRadius(heap[id])) > 0
                    /\ heap'[id].pastTracking
                         = Inserted(heap[id], heap'[id].position)
            /\ heap'[id].collided
                 <=> \E i \in 2..Len(heap[id].pastTracking) :
                       Near(heap[id], i, heap'[id].position)]_vars

\* a car that was ended on the canvas, during its grace period, nearer than
\* the tracking radius to a waypoint older than its most recent one
C18_Witness ==
  /\ lastOp.op = "tickAll"
  /\ \E id \in DOMAIN heap :
       /\ heap[id].collided
       /\ ~OutOfBounds(heap[id])
       /\ heap[id].totalTicks <= GraceTicks * 1000
       /\ heap[id].endTime = now
       /\ \E i \in 2..Len(heap[id].pastTracking) :
            Near(heap[id], i, heap[id].position)

\* C19: when a perception refresh fails (composeImage rejects, or a pixel
\* read throws), the car keeps its previous sensor readings and its previous
\* acceleration and steering, is not marked collided, and its sensorsReady
\* flag is set, so that the next tick in which it drives on starts a new
\* refresh; nothing else of the trainer changes, the failure does not reach
\* the tick loop.
C19_RefreshFailureIsLocal ==
  [][/\ (lastOp'.op = "settle" /\ lastOp'.track = "rejected"
           /\ lastOp'.car \in Kept)
          => /\ Perception(heap'[lastOp'.car]) = Perception(heap[lastOp'.car])
             /\ heap'[lastOp'.car].collided = heap[lastOp'.car].collided
             /\ heap'[lastOp'.car].sensorsReady
             /\ \A id \in Kept \ {lastOp'.car} : heap'[id] = heap[id]
             /\ registry' = registry
             /\ settings' = settings
     /\ \A id \in Kept :
          (/\ lastOp'.op = "tickAll"
           /\ heap[id].sensorsReady
           /\ ~heap[id].collided
           /\ heap'[id].epoch = heap[id].epoch
           /\ Drove(id)
           /\ ~heap'[id].collided)
            => Started(id)]_vars

\* the refresh of a Racing car has just been rejected: the car still holds
\* the readings of an earlier refresh, is not collided and is ready for the
\* next refresh
C19_Witness ==
  /\ lastOp.op = "settle"
  /\ lastOp.track = "rejected"
  /\ lastOp.car \in DOMAIN heap
  /\ ~heap[lastOp.car].collided
  /\ heap[lastOp.car].sensorsReady
  /\ Len(heap[lastOp.car].sensorReadings) > 0
  /\ heap[lastOp.car].sensorReadings[1] > 0

\* the sum of the first k entries of steps
RECURSIVE Dispatched(_, _)
Dispatched(steps, k) == IF k = 0 THEN 0 ELSE steps[k] + Dispatched(steps, k - 1)

\* C20: for any wall-clock gap between clock calls, one Settings.tick call
\* dispatches its sub-steps to Car.tickAll one after the other, each sub-step
\* at most maxTickSecs, and the simulated time dispatched by the call never
\* exceeds maxUpdateSecs (time dilation 1): every car is ticked through the
\* sub-steps in order, up to the one that ends it.
C20_ClockBoundsSubSteps ==
  [][lastOp'.op = "settingsTick"
       => /\ \A i \in 1..Len(lastOp'.car) :
               lastOp'.car[i] > 0 /\ lastOp'.car[i] <= MaxTickSecs
          /\ Dispatched(lastOp'.car, Len(lastOp'.car)) <= MaxUpdateSecs
          /\ \A id \in Kept :
               \E k \in 0..Len(lastOp'.car) :
                 /\ heap'[id].totalTicks
                      = heap[id].totalTicks + Dispatched(lastOp'.car, k)
                 /\ heap'[id].totalTicks - heap[id].totalTicks <= MaxUpdateSecs
                 /\ k < Len(lastOp'.car) => heap'[id].collided]_vars

\* a call after a stall dispatched the whole update window in three
\* sub-steps to a car that is still racing
C20_Witness ==
  /\ lastOp.op = "settingsTick"
  /\ Len(lastOp.car) = 3
  /\ Dispatched(lastOp.car, 3) = MaxUpdateSecs
  /\ \E id \in DOMAIN heap :
       ~heap[id].collided /\ heap[id].totalTicks >= MaxUpdateSecs

\* the events of the call after its first k
RECURSIVE NoTickAfter(_, _)
NoTickAfter(events, k) ==
  \/ k > Len(events)
  \/ events[k] # "tickAll" /\ NoTickAfter(events, k + 1)

Blocked(d) == {r \in 0..d : lastOp.car.samples[r + 1]}

\* C22: Sensor.read returns lastClearDistance / range clamped to [0, 1]: a
\* ray with no OffTrack sample over its entire range reads exactly 1.0, a ray
\* blocked at distance 0 reads 0.0, and samples beyond the first OffTrack
\* sample never affect the result.
C22_ClearRayReadsOne ==
  lastOp.op = "read"
    => /\ lastOp.outcome \in 0..1000
       /\ Blocked(lastOp.car.range) = {} => lastOp.outcome = 1000
       /\ lastOp.car.samples[1] => lastOp.outcome = 0
       /\ \A other \in Rays :
            (\E r \in Blocked(lastOp.car.range) :
               /\ other[r + 1]
               /\ \A q \in 0..(r - 1) :
                    ~other[q + 1] /\ ~lastOp.car.samples[q + 1])
              => SensorRead(other, lastOp.car.range) = lastOp.outcome

\* the cars the step finalizes: the car of an endRun call, or the cars a
\* tick or a resolved refresh ends
Finalized ==
  IF lastOp'.op = "endRun" THEN {lastOp'.car}
  ELSE {id \in Kept : heap'[id].endTime # 0
                        /\ heap'[id].endTime # heap[id].endTime}

\* the best recorded score over all tracks, and of one track, 0 if none
BestOverall(s) ==
  LET set == {s.sotaScore[tr].score : tr \in {r \in Tracks : HasScore(s.sotaScore[r])}}
  IN IF set = {} THEN 0 ELSE CHOOSE m \in set : \A x \in set : x <= m

BestOn(s, tr) == IF HasScore(s.sotaScore[tr]) THEN s.sotaScore[tr].score ELSE 0

\* the records of the tracks other than tr are those of before the step
OthersKept(tr) ==
  \A o \in Tracks \ {tr} : settings'.sotaScore[o] = settings.sotaScore[o]

\* C23: a step that finalizes one car, of score s > 0 on track T: with a
\* network and s above the best over all tracks, sotaNet becomes the car's
\* network and sotaScore[T] its score; else with s above sotaScore[T] only,
\* sotaScore[T] becomes its score and sotaNet stays; otherwise neither
\* changes.  A car without a network changes neither.
C23_FinalizeUpdatesChampions ==
  [][(lastOp'.op \in {"endRun", "tickAll", "settle"}
        /\ lastOp'.outcome # "done" /\ Cardinality(Finalized) = 1)
       => \A id \in Finalized :
            LET c == heap'[id]
                s == Score(c, now)
            IN IF c.net = NoNet
               THEN /\ settings'.sotaNet = settings.sotaNet
                    /\ settings'.sotaScore = settings.sotaScore
               ELSE (s.score > 0 /\ c.track # NoTrack)
                      => IF s.score > BestOverall(settings)
                         THEN /\ settings'.sotaNet = c.net.config
                              /\ settings'.sotaScore[c.track] = s
                              /\ OthersKept(c.track)
                         ELSE IF s.score > BestOn(settings, c.track)
                         THEN /\ settings'.sotaNet = settings.sotaNet
                              /\ settings'.sotaScore[c.track] = s
                              /\ OthersKept(c.track)
                         ELSE /\ settings'.sotaNet = settings.sotaNet
                              /\ settings'.sotaScore = settings.sotaScore]_vars

\* the track Oval has a record below that of Basic, set by a car that did not
\* become the champion, and a manual car has been finalized
C23_Witness ==
  /\ HasScore(settings.sotaScore["Basic"])
  /\ HasScore(settings.sotaScore["Oval"])
  /\ settings.sotaScore["Oval"].score < settings.sotaScore["Basic"].score
  /\ lastOp.op = "endRun"
  /\ lastOp.car \in DOMAIN heap
  /\ heap[lastOp.car].net = NoNet
  /\ heap[lastOp.car].track # NoTrack
  /\ Score(heap[lastOp.car], now).score > 0

\* the step is a nextGeneration that went on to breed: called directly, by
\* the manual-control toggle or by tickAll
Proceeds ==
  /\ lastOp'.op \in {"nextGeneration", "toggleManual", "tickAll"}
  /\ lastOp'.outcome = "done"

\* the registered car of a name
CarNamed(w, name) == w.heap[w.registry[RegIndex(w.registry, name)].id]

\* C24: after a nextGeneration that proceeds with numSimulations.globalBest
\* >= 1, the car AI.globalBest.0 is registered and its network is the
\* persisted champion settings.sotaNet, weight for weight.
C24_ChampionPreserved ==
  [][(Proceeds /\ settings'.numSimulations.globalBest >= 1)
       => /\ RegIndex(registry', AiName("AI.globalBest", 0)) # 0
          /\ heap'[registry'[RegIndex(registry', AiName("AI.globalBest", 0))].id]
               .net.config = settings'.sotaNet]_vars

\* a champion with a weight the initial network does not have, crowned by the
\* nextGeneration that bred its copy with a noise drawn
C24_Witness ==
  /\ lastOp.op = "nextGeneration"
  /\ lastOp.outcome = "done"
  /\ settings.numIterations > 1
  /\ settings.numSimulations.globalBest >= 1
  /\ settings.sotaNet # NetworkInit(NumSensors + 4, 2)
  /\ RegIndex(registry, AiName("AI.globalBest", 0)) # 0
  /\ CarNamed(World, AiName("AI.globalBest", 0)).net.config = settings.sotaNet
  /\ CarNamed(World, AiName("AI.globalBest", 0)).track # NoTrack
  /\ ~CarNamed(World, AiName("AI.globalBest", 0)).collided

\* C25: after a nextGeneration(track, force), early return included: with
\* manual control enabled the registry holds a Manual car that is not
\* collided and is placed on track; with manual control disabled it holds no
\* Manual car.
C25_ManualDriverEnsured ==
  [][lastOp'.op \in {"nextGeneration", "toggleManual"}
       => IF settings'.manualControl
          THEN /\ RegIndex(registry', Manual) # 0
               /\ ~heap'[registry'[RegIndex(registry', Manual)].id].collided
               /\ heap'[registry'[RegIndex(registry', Manual)].id].track
                    = lastOp'.track
          ELSE RegIndex(registry', Manual) = 0]_vars

\* a call that returned early, the AI cars still racing, after it made the
\* manual driver's car (the last object constructed)
C25_Witness ==
  /\ lastOp.op = "nextGeneration"
  /\ lastOp.outcome = "early"
  /\ settings.manualControl
  /\ RegIndex(registry, Manual) # 0
  /\ CarNamed(World, Manual).track = lastOp.track
  /\ ~CarNamed(World, Manual).collided
  /\ registry[RegIndex(registry, Manual)].id = nextId - 1

\* the refreshes in flight of cars that are racing as they were when the
\* refresh started
Refreshing ==
  {p \in pending : /\ p.car \in DOMAIN heap
                   /\ p.epoch = heap[p.car].epoch
                   /\ heap[p.car].track # NoTrack
                   /\ ~heap[p.car].collided}

\* the masks a refresh may resolve with, the footprint on the road
RoadMasks == {o \in Outcomes : o.ok /\ o.read /\ ~o.offTrack}

\* the car c as the refresh resolving with the mask o leaves it
Refreshed(c, o) == Settle(c, settings, o, now).car

RisingEdge(c, o) == o.lapping /\ ~c.inCrossing
FallingEdge(c, o) == ~o.lapping /\ c.inCrossing

\* the heading differs from the track's starting angle by more than pi/2
WrongWay(c) == 2 * CrossAngle(c.angle, Track(c.track).startingAngle) > PiU

\* the edges checkCollision acts on: those at least 1 px of odometer past
\* the crossing before (any rising edge when there was none)
RisingTaken(c, o) ==
  /\ RisingEdge(c, o)
  /\ (c.crossingDistance = 0 \/ c.odometer >= c.crossingDistance + 1000)
FallingTaken(c, o) ==
  /\ FallingEdge(c, o)
  /\ c.odometer >= c.crossingDistance + 1000

\* C26 as stated: on a rising or falling lap-line edge the run ends as
\* collided iff the heading is more than pi/2 off the starting angle; a
\* wrong-way rising edge changes neither laps nor startTime; steady presence
\* on or off the line triggers nothing.
C26_EdgeEndsIffWrongWay ==
  \A p \in Refreshing, o \in RoadMasks :
     LET c == heap[p.car]
     IN /\ (RisingEdge(c, o) \/ FallingEdge(c, o))
             => (Refreshed(c, o).collided <=> WrongWay(c))
        /\ (RisingEdge(c, o) /\ WrongWay(c))
             => /\ Refreshed(c, o).laps = c.laps
                /\ Refreshed(c, o).startTime = c.startTime
        /\ ~(RisingEdge(c, o) \/ FallingEdge(c, o))
             => /\ ~Refreshed(c, o).collided
                /\ Refreshed(c, o).laps = c.laps
                /\ Refreshed(c, o).startTime = c.startTime
                /\ Refreshed(c, o).inCrossing = c.inCrossing

\* C26, amended: an edge at least 1 px past the crossing before (any rising
\* edge when there was none) with the heading more than pi/2 off ends the run
\* as collided without counting a lap, the timer keeping its value unless it
\* never started (endRun then sets it to the end time); with the heading
\* within pi/2 only a rising edge found an incomplete lap ends the run; any
\* other refresh over the road leaves the run, laps, timer and edge flag alone.
C26_TakenEdgeEndsWrongWay ==
  \A p \in Refreshing, o \in RoadMasks :
     LET c == heap[p.car]
     IN /\ ((RisingTaken(c, o) \/ FallingTaken(c, o)) /\ WrongWay(c))
             => /\ Refreshed(c, o).collided
                /\ Refreshed(c, o).laps = c.laps
                /\ Refreshed(c, o).startTime
                     = IF c.startTime = 0 THEN now ELSE c.startTime
        /\ ((RisingTaken(c, o) \/ FallingTaken(c, o)) /\ ~WrongWay(c)
              /\ Refreshed(c, o).collided)
             => /\ RisingTaken(c, o)
                /\ c.startTime # 0
                /\ Refreshed(c, o).laps = c.laps
        /\ ~(RisingTaken(c, o) \/ FallingTaken(c, o))
             => /\ ~Refreshed(c, o).collided
                /\ Refreshed(c, o).laps = c.laps
                /\ Refreshed(c, o).startTime = c.startTime
                /\ Refreshed(c, o).inCrossing = c.inCrossing

\* a refresh showing the road ended a car that was heading the wrong way and
\* had never started its timer
C26_Witness ==
  /\ lastOp.op = "settle"
  /\ lastOp.outcome = "fresh"
  /\ lastOp.track # "rejected"
  /\ ~lastOp.force
  /\ lastOp.car \in DOMAIN heap
  /\ heap[lastOp.car].collided
  /\ heap[lastOp.car].endTime = now
  /\ heap[lastOp.car].startTime = now
  /\ heap[lastOp.car].laps = 0
  /\ WrongWay(heap[lastOp.car])

\* C27: randomStep leaves the weights of its source as they were and returns
\* another Network object, of the same input, hidden and output sizes, that
\* passes validate.
C27_RandomStepLeavesSource ==
  [][lastOp'.op = "randomStep"
       => /\ net'.config.weights = net.config.weights
          /\ net' = net
          /\ evalOut'[1] # NoNet
          /\ NetRef(evalOut'[1]) # NetRef(net')
          /\ evalOut'[1].config.input = net.config.input
          /\ evalOut'[1].config.hidden = net.config.hidden
          /\ evalOut'[1].config.output = net.config.output
          /\ Validate(evalOut'[1].config) = "ok"]_vars

\* a randomStep with a deviation returned a Network with a hidden layer whose
\* weights differ from those of its source
C27_Witness ==
  /\ lastOp.op = "randomStep"
  /\ lastOp.car > 0
  /\ net # NoNet
  /\ evalOut[1] # NoNet
  /\ Len(net.config.hidden) = 1
  /\ evalOut[1].config.weights # net.config.weights

\* C28: a tick that moves a Racing car out of the canvas (x <= 0, x >= width,
\* y <= 0 or y >= height) ends the run as collided on that tick, and every
\* car still Racing after a tick lies strictly inside the canvas.
C28_OutOfBoundsEndsRun ==
  [][\A id \in Kept :
       (/\ lastOp'.op = "tickAll"
        /\ heap'[id].epoch = heap[id].epoch
        /\ heap[id].track # NoTrack
        /\ ~heap[id].collided)
         => /\ (Drove(id) /\ OutOfBounds(heap'[id]))
                 => /\ heap'[id].collided
                    /\ heap'[id].endTime = now
            /\ ~heap'[id].collided
                 => /\ 0 < heap'[id].position.x
                    /\ heap'[id].position.x < TrackWidth * 1000
                    /\ 0 < heap'[id].position.y
                    /\ heap'[id].position.y < TrackHeight * 1000]_vars

\* a tick drove a car off the canvas and ended it there
C28_Witness ==
  /\ lastOp.op = "tickAll"
  /\ \E id \in DOMAIN heap :
       /\ heap[id].collided
       /\ heap[id].endTime = now
       /\ heap[id].totalTicks > 0
       /\ OutOfBounds(heap[id])

\* the track of the nextGeneration call of the step
CallTrack ==
  IF lastOp'.op = "tickAll" THEN heap[registry[1].id].track ELSE lastOp'.track

\* the AI cars the step constructed
Bred == {id \in DOMAIN heap' : id >= nextId /\ heap'[id].net # NoNet}

\* C29: a nextGeneration that proceeds past the still-racing check adds
\* exactly 1 to numIterations and leaves every AI car it created Racing on
\* the track (placed, not collided, laps, odometer, speed and startTime 0),
\* and re-places no car that already had a track; one that returns early
\* leaves numIterations as it was.
C29_GenerationStartsFresh ==
  [][/\ Proceeds
          => /\ settings'.numIterations = settings.numIterations + 1
             /\ \A id \in Bred :
                  /\ heap'[id].track = CallTrack
                  /\ ~heap'[id].collided
                  /\ heap'[id].laps = 0
                  /\ heap'[id].odometer = 0
                  /\ heap'[id].speed = 0
                  /\ heap'[id].startTime = 0
                  /\ heap'[id].endTime = 0
             /\ \A id \in Kept :
                  heap[id].track # NoTrack
                    => /\ heap'[id].epoch = heap[id].epoch
                       /\ heap'[id].track = heap[id].track
                       /\ heap'[id].position = heap[id].position
     /\ (lastOp'.op \in {"nextGeneration", "toggleManual"}
           /\ lastOp'.outcome = "early")
          => settings'.numIterations = settings.numIterations]_vars

\* a later generation was bred on another track than the one on which an
\* ended car of a dropped name stays
C29_Witness ==
  /\ lastOp.op = "nextGeneration"
  /\ lastOp.outcome = "done"
  /\ settings.numIterations > 1
  /\ \E e \in 1..Len(registry) :
       /\ heap[registry[e].id].net # NoNet
       /\ heap[registry[e].id].track = lastOp.track
       /\ ~heap[registry[e].id].collided
       /\ heap[registry[e].id].epoch = 1
  /\ \E e \in 1..Len(registry) :
       /\ heap[registry[e].id].collided
       /\ heap[registry[e].id].track \notin {NoTrack, lastOp.track}

\* every registered car is collided and was ended more than 1000 ms ago
AllFinished ==
  \A i \in 1..Len(registry) :
     /\ heap[registry[i].id].collided
     /\ now - heap[registry[i].id].endTime > ResetAfter

\* some registered car is Racing when the step begins
SomeRacing ==
  \E i \in 1..Len(registry) :
     /\ heap[registry[i].id].track # NoTrack
     /\ ~heap[registry[i].id].collided

\* C30: with autoAdvance enabled a tickAll calls nextGeneration iff the
\* registry is not empty, its first car has a track and every registered car,
\* the manual one included, is collided with an endTime more than 1000 ms in
\* the past; without autoAdvance it never does, and no tickAll cuts short a
\* generation in which some car is Racing.
C30_AutoAdvanceWaitsForAll ==
  [][lastOp'.op = "tickAll"
       => /\ (lastOp'.outcome # "ticked")
               <=> /\ settings.autoAdvance
                   /\ Len(registry) > 0
                   /\ heap[registry[1].id].track # NoTrack
                   /\ AllFinished
          /\ SomeRacing => lastOp'.outcome = "ticked"]_vars

\* tickAll started a generation by itself, the manual driver's car among the
\* cars it had waited for
C30_Witness ==
  /\ lastOp.op = "tickAll"
  /\ lastOp.outcome = "done"
  /\ settings.autoAdvance
  /\ settings.numIterations = 2
  /\ RegIndex(registry, Manual) # 0
  /\ ~CarNamed(World, Manual).collided
  /\ CarNamed(World, Manual).epoch = 1
  /\ registry[RegIndex(registry, Manual)].id = nextId - 1

\* C31: an AI car that is ended without ever having crossed the lap line
\* (startTime is 0 when endRun is called) has final score 0, and its endRun
\* changes neither sotaScore nor sotaNet.
C31_NeverStartedScoresNothing ==
  [][\A id \in Kept :
       (/\ lastOp'.op = "endRun"
        /\ lastOp'.car = id
        /\ heap[id].net # NoNet
        /\ heap[id].track # NoTrack
        /\ heap[id].startTime = 0)
         => /\ Score(heap'[id], now).score = 0
            /\ settings'.sotaScore = settings.sotaScore
            /\ settings'.sotaNet = settings.sotaNet]_vars

\* C32: a car whose run is ended because it completed 3 laps reports
\* score.success = true once the run has ended: the end-of-run routine does
\* not force success to false.
C32_FinishedRunSucceeds ==
  [][\A id \in Kept :
       (/\ lastOp'.op = "tickAll"
        /\ heap[id].name # Manual
        /\ heap[id].track # NoTrack
        /\ ~heap[id].collided
        /\ LostCause(heap[id], now) = "finished"
        /\ heap'[id].endTime = now)
         => Score(heap'[id], now).success]_vars

\* C33: at most one perception refresh of a car is outstanding at any time:
\* no step starts a refresh of a car while an earlier refresh of that car has
\* not yet settled, however slow that refresh is.
C33_OneRefreshOutstanding ==
  [][\A id \in Kept : Started(id) => PendingOf(pending, id) = {}]_vars

\* the fields the claim says a paused tick leaves alone
Frozen(c) ==
  <<c.position, c.speed, c.odometer, c.laps, c.steering, c.acceleration,
    c.collided>>

\* C34: while globalPaused is set, a clock tick (tickAll with dt = 0) changes
\* no car's position, speed, odometer, lap count, control inputs or collided
\* flag: no car ends its run and no generation advances.
C34_PauseFreezesCars ==
  [][(lastOp'.op = "tickAll" /\ lastOp'.car = TickLength(TRUE, HugeTick))
       => /\ lastOp'.outcome = "ticked"
          /\ registry' = registry
          /\ \A i \in 1..Len(registry) :
               /\ registry[i].id \in DOMAIN heap'
               /\ Frozen(heap'[registry[i].id]) = Frozen(heap[registry[i].id])]_vars

\* the wall-clock time a Settings.tick call finds elapsed, clamped to
\* [0, maxUpdateSecs]
Elapsed ==
  Clamp(now' - (IF settings.lastTick = NoTick THEN now' ELSE settings.lastTick),
        0, MaxUpdateSecs)

\* C35: the sub-steps dispatched by one Settings.tick call with source "tick"
\* that is not skipped sum exactly to the elapsed wall time clamped to
\* [0, maxUpdateSecs], also when the time left is below minUpdateSecs.
C35_SubStepsSumToElapsed ==
  [][(/\ lastOp'.op = "settingsTick"
      /\ lastOp'.track = "tick"
      /\ lastOp'.outcome # <<"skipped">>)
       => Dispatched(lastOp'.car, Len(lastOp'.car)) = Elapsed]_vars

\* C36: the lap count of an AI car never exceeds 3, whatever the order of
\* ticks, endRun calls and settlements of perception refreshes.
C36_LapsAtMostThree ==
  \A id \in DOMAIN heap : heap[id].net # NoNet => heap[id].laps <= WinLaps

\* the waypoints p and q are more than the tracking radius of car c apart
FarApart(p, q, c) == CompareDist(p, q, TrackingRadius(c)) > 0

\* every placed car holds 1 to 3 waypoints, pairwise far apart
WaypointsApart ==
  \A id \in DOMAIN heap :
     heap[id].track # NoTrack
       => /\ Len(heap[id].pastTracking) \in 1..3
          /\ \A i \in 1..Len(heap[id].pastTracking) :
               \A j \in 1..Len(heap[id].pastTracking) :
                  i # j => FarApart(heap[id].pastTracking[i],
                                    heap[id].pastTracking[j], heap[id])

\* C37: every placed car holds between 1 and 3 waypoints, pairwise more than
\* trackingRadius apart; only a tick inserts a waypoint, the car's position,
\* and only when it is more than trackingRadius away from every waypoint
\* stored; the insertion into a full buffer drops the oldest waypoint.
C37_WaypointBuffer ==
  /\ WaypointsApart
  /\ [][/\ WaypointsApart'
        /\ \A id \in Kept :
             (/\ heap'[id].epoch = heap[id].epoch
              /\ heap[id].track # NoTrack
              /\ heap'[id].pastTracking # heap[id].pastTracking)
               => /\ lastOp'.op = "tickAll"
                  /\ heap'[id].pastTracking[1] = heap'[id].position
                  /\ \A i \in 1..Len(heap[id].pastTracking) :
                       FarApart(heap[id].pastTracking[i],
                                heap'[id].position, heap[id])
                  /\ heap'[id].pastTracking
                       = Inserted(heap[id], heap'[id].position)]_vars

\* a tick inserted a waypoint into a full buffer: the waypoint of the
\* placement is gone
C37_Witness ==
  /\ lastOp.op = "tickAll"
  /\ \E id \in DOMAIN heap :
       /\ heap[id].track # NoTrack
       /\ ~heap[id].collided
       /\ Len(heap[id].pastTracking) = 3
       /\ heap[id].pastTracking[1] = heap[id].position
       /\ \A i \in 1..3 : heap[id].pastTracking[i] # SeedWaypoint(heap[id].track)

\* C38: from the default settings, under any sequence of nextGeneration and
\* endRun calls, settings.sotaNet satisfies the shape invariant of Network
\* (weights.length = hidden.length + 1, rows and columns of the layer sizes)
\* and so does the network of every registered AI car: the constructor
\* accepts sotaNet and no nextGeneration fails on it.
C38_NetworksKeepShape ==
  /\ ShapeMatches(settings.sotaNet)
  /\ Validate(settings.sotaNet) = "ok"
  /\ \A i \in 1..Len(registry) :
       heap[registry[i].id].net # NoNet
         => ShapeMatches(heap[registry[i].id].net.config)
  /\ lastOp.op = "nextGeneration" => lastOp.outcome # "threw"

\* a generation was bred from a champion that is no longer the default
\* network, and one of its cars carries a mutated network
C38_Witness ==
  /\ lastOp.op = "nextGeneration"
  /\ lastOp.outcome = "done"
  /\ settings.numIterations >= 2
  /\ settings.sotaNet # NetworkInit(NumSensors + 4, 2)
  /\ \E i \in 1..Len(registry) :
       /\ heap[registry[i].id].net # NoNet
       /\ heap[registry[i].id].net.config # settings.sotaNet
       /\ heap[registry[i].id].net.config # NetworkInit(NumSensors + 4, 2)

\* C39: for a mask pixel tagged Available, OffTrack or LapLine, with or
\* without the vehicle colour added on top, check(pixel, vehicle, offTrack)
\* is true iff the pixel is OffTrack and covered by the vehicle,
\* check(pixel, vehicle, lapLine) iff it is LapLine and covered, and
\* check(pixel, offTrack) iff it is OffTrack.
C39_TagsStayExclusive ==
  lastOp.op = "check"
    => /\ lastOp.car.colors = <<SensorVehicle, SensorOffTrack>>
            => (lastOp.force
                  <=> lastOp.car.tag = SensorOffTrack /\ lastOp.car.covered)
       /\ lastOp.car.colors = <<SensorVehicle, SensorLapLine>>
            => (lastOp.force
                  <=> lastOp.car.tag = SensorLapLine /\ lastOp.car.covered)
       /\ lastOp.car.colors = <<SensorOffTrack>>
            => (lastOp.force <=> lastOp.car.tag = SensorOffTrack)

\* the footprint over an OffTrack pixel was recognised
C39_Witness ==
  /\ lastOp.op = "check"
  /\ lastOp.car.tag = SensorOffTrack
  /\ lastOp.car.covered
  /\ lastOp.car.colors = <<SensorVehicle, SensorOffTrack>>
  /\ lastOp.force
====
